---- MODULE Spec2Model ----
(***************************************************************************)
(* JSON Web Proofs / JSON Proof Tokens: the issued and presented forms,    *)
(* their compact serialization, decoding and proof verification.           *)
(*                                                                         *)
(* Byte strings are symbolic: an octet string is a record that says what   *)
(* the bytes are (the JSON text of a header or of a payload value in a     *)
(* given spelling, a BBS signature, a BBS proof of knowledge, or bytes     *)
(* that are none of these).  A compact string is a sequence of atoms: the  *)
(* separators '.' and '~', a maximal run of base64url characters that      *)
(* decodes to an octet string, or a run that is not canonical base64url.   *)
(***************************************************************************)
EXTENDS Integers, Sequences, FiniteSets, TLC

----------------------------------------------------------------------------
(* Bounds *)

\* most claims in a JptClaims value
MaxClaims == 2
\* number of independently generated key pairs
NumKeys == 2
\* the longest key_ops list of a key
MaxKeyOps == 2
\* nodes of a JSON value with structure
MaxNodes == 4

----------------------------------------------------------------------------
(* Option and Result *)

None == <<>>
Some(x) == <<x>>
IsSome(o) == Len(o) = 1
Unwrap(o) == o[1]

Ok(v) == [ok |-> v]
Err(e) == [err |-> e]
Panic == [panic |-> TRUE]
IsOk(r) == "ok" \in DOMAIN r
IsErr(r) == "err" \in DOMAIN r
IsPanic(r) == "panic" \in DOMAIN r
\* the ? operator and unwrap() chains: a failed step is returned as it is
Failed(r) == ~ IsOk(r)

----------------------------------------------------------------------------
(* Inputs *)

ClaimNames == <<"a", "b", "c", "d">>
JsonValues == {"null", "x"}
Keys == 1 .. NumKeys

BbsAlgs == {"BBS", "BBS-SHAKE256"}
\* one reserved algorithm stands for the Single-Use and MAC families
ProofAlgorithms == BbsAlgs \cup {"SU-ES256"}
PresentationProofAlgorithms == BbsAlgs \cup {"SU-ES256"}

\* An ordered claim set: the first n names, each with a JSON value.
JptClaimsSet ==
  UNION { [1 .. n -> [name : {ClaimNames[i] : i \in 1 .. MaxClaims}, value : JsonValues]]
          : n \in 0 .. MaxClaims }

WellFormedJptClaims(c) == \A i \in 1 .. Len(c) : c[i].name = ClaimNames[i]

----------------------------------------------------------------------------
(* jwk *)

\* CustomError::ProofGenerationError("key is not compatible")
KeyIsNotCompatible == "ProofGenerationError(key is not compatible)"

KeyOps ==
  {"sign", "verify", "encrypt", "decrypt", "wrapKey", "unwrapKey", "deriveKey",
   "deriveBits", "proofGeneration", "proofVerification"}

KeyOps_inverse(op) ==
  CASE op = "sign" -> "verify"
    [] op = "verify" -> "sign"
    [] op = "encrypt" -> "decrypt"
    [] op = "decrypt" -> "encrypt"
    [] op = "wrapKey" -> "unwrapKey"
    [] op = "unwrapKey" -> "wrapKey"
    [] op = "deriveKey" -> "deriveKey"
    [] op = "deriveBits" -> "deriveBits"
    [] op = "proofGeneration" -> "proofVerification"
    [] op = "proofVerification" -> "proofVerification"

JwkOctetKeyPairParameters_new(crv, x, d) ==
  [kty |-> "OctetKeyPair", crv |-> crv, x |-> x, d |-> d]

JwkEllipticCurveKeyParameters_new(crv, x, y, d) ==
  [kty |-> "EllipticCurve", crv |-> crv, x |-> x, y |-> y, d |-> d]

JwkOctetKeyPairParameters_to_public(p) ==
  [kty |-> "OctetKeyPair", crv |-> p.crv, x |-> p.x, d |-> None]

JwkEllipticCurveKeyParameters_to_public(p) ==
  [kty |-> "OctetKeyPair", crv |-> p.crv, x |-> p.x, y |-> p.y, d |-> None]

\* the variant is told by the member y, which only EllipticCurve has
JwkAlgorithmParameters_to_public(p) ==
  IF "y" \in DOMAIN p
  THEN Some(JwkEllipticCurveKeyParameters_to_public(p))
  ELSE Some(JwkOctetKeyPairParameters_to_public(p))

Jwk_from_key_params(key_params) ==
  [kid |-> None, pk_use |-> None, key_ops |-> None, alg |-> None,
   x5u |-> None, x5c |-> None, x5t |-> None, key_params |-> key_params]

\* Jwk::generate: an Octet-Key-Pair on BLS12381G2 holding the public key x
\* and the secret key d of key pair k
Jwk_generate(k) ==
  Jwk_from_key_params(JwkOctetKeyPairParameters_new("BLS12381G2", k, Some(k)))

Jwk_to_public(jwk) ==
  LET params == JwkAlgorithmParameters_to_public(jwk.key_params)
  IN  IF ~ IsSome(params) THEN None
      ELSE Some([Jwk_from_key_params(Unwrap(params)) EXCEPT
                   !.kid = jwk.kid,
                   !.pk_use = jwk.pk_use,
                   !.key_ops = IF IsSome(jwk.key_ops)
                               THEN Some([i \in 1 .. Len(Unwrap(jwk.key_ops)) |->
                                            KeyOps_inverse(Unwrap(jwk.key_ops)[i])])
                               ELSE None,
                   !.alg = jwk.alg,
                   !.x5u = jwk.x5u,
                   !.x5c = jwk.x5c,
                   !.x5t = jwk.x5t])

is_public(jwk) == ~ IsSome(jwk.key_params.d)
is_private(jwk) == IsSome(jwk.key_params.d)

\* a check that looks at the algorithm only
check_alg_curve_compatibility_any(alg, crv) == alg = "BBS" \/ alg = "BBS-SHAKE256"

check_alg_curve_compatibility(alg, crv) ==
  \/ alg = "BBS" /\ crv = "BLS12381G2"
  \/ alg = "BBS-SHAKE256" /\ crv = "BLS12381G2"

check_presentation_alg_curve_compatibility(alg, crv) ==
  \/ alg = "BBS" /\ crv = "BLS12381G2"
  \/ alg = "BBS-SHAKE256" /\ crv = "BLS12381G2"

----------------------------------------------------------------------------
(* encoding *)

Dot == [sep |-> "."]
Tilde == [sep |-> "~"]
\* a run of characters that BASE64URL_NOPAD rejects
BadChunk == [bad |-> TRUE]
EmptyBytes == [empty |-> TRUE]

base64url_encode(bytes) == IF bytes = EmptyBytes THEN <<>> ELSE << [b64 |-> bytes] >>

\* BASE64URL_NOPAD.decode(..).unwrap()
base64url_decode(s) ==
  IF s = <<>> THEN Ok(EmptyBytes)
  ELSE IF Len(s) = 1 /\ "b64" \in DOMAIN s[1] THEN Ok(s[1].b64)
  ELSE Panic

\* serde_json::to_vec of a JSON value: the canonical spelling (sp = 0)
to_vec_Value(v) == [jv |-> v, sp |-> 0]

base64url_encode_serializable(v) == base64url_encode(to_vec_Value(v))

\* serde_json::from_slice::<Value>: every spelling of a document parses to it
from_slice_Value(bytes) ==
  IF "jv" \in DOMAIN bytes THEN Ok(bytes.jv)
  ELSE IF "ih" \in DOMAIN bytes \/ "ph" \in DOMAIN bytes THEN Ok("object")
  ELSE Err("SerializationError")

\* str::splitn(n, sep): at most n pieces, the last one holds the remainder
RECURSIVE FirstSep(_, _, _)
FirstSep(s, sep, i) ==
  IF i > Len(s) THEN 0
  ELSE IF s[i] = sep THEN i
  ELSE FirstSep(s, sep, i + 1)

RECURSIVE splitn(_, _, _)
splitn(s, n, sep) ==
  IF n = 0 THEN <<>>
  ELSE IF n = 1 THEN <<s>>
  ELSE LET i == FirstSep(s, sep, 1)
       IN  IF i = 0 THEN <<s>>
           ELSE <<SubSeq(s, 1, i - 1)>> \o splitn(SubSeq(s, i + 1, Len(s)), n - 1, sep)

RECURSIVE join(_, _)
join(pieces, sep) ==
  IF Len(pieces) = 0 THEN <<>>
  ELSE IF Len(pieces) = 1 THEN pieces[1]
  ELSE pieces[1] \o <<sep>> \o join(Tail(pieces), sep)

----------------------------------------------------------------------------
(* jwp::header *)

IssuerProtectedHeader_new(alg) == [typ |-> Some("JPT"), alg |-> alg, claims |-> None]

IssuerProtectedHeader_set_claims(h, claims) == [h EXCEPT !.claims = claims]

PresentationProtectedHeader_new(alg) == [alg |-> alg, aud |-> None, nonce |-> None]

\* serde_json::to_vec of a header: declared field order, absent fields left out
to_vec_IssuerProtectedHeader(h) == [ih |-> h, sp |-> 0]

\* a serializer that leaves the optional aud and nonce members out
to_vec_PresentationProtectedHeader_skip(h) ==
  [ph |-> [h EXCEPT !.aud = None, !.nonce = None], sp |-> 0]

to_vec_PresentationProtectedHeader(h) == [ph |-> h, sp |-> 0]

\* serde_json::from_slice into the header struct: spelling, member order and
\* unknown members are dropped, missing optional members become None
from_slice_IssuerProtectedHeader(bytes) ==
  IF "ih" \in DOMAIN bytes THEN Ok(bytes.ih)
  ELSE IF "ph" \in DOMAIN bytes
       THEN Ok([typ |-> None, alg |-> bytes.ph.alg, claims |-> None])
  ELSE Err("SerializationError")

from_slice_PresentationProtectedHeader(bytes) ==
  IF "ph" \in DOMAIN bytes THEN Ok(bytes.ph)
  ELSE IF "ih" \in DOMAIN bytes
       THEN Ok([alg |-> bytes.ih.alg, aud |-> None, nonce |-> None])
  ELSE Err("SerializationError")

----------------------------------------------------------------------------
(* jpt::payloads, jpt::claims *)

Payloads_new_from_values(values) ==
  [i \in 1 .. Len(values) |-> [value |-> values[i], tag |-> "Disclosed"]]

get_values(payloads) == [i \in 1 .. Len(payloads) |-> payloads[i].value]

RECURSIVE IndexesWithTag(_, _, _)
IndexesWithTag(payloads, tag, i) ==
  IF i > Len(payloads) THEN <<>>
  ELSE (IF payloads[i].tag = tag THEN <<i>> ELSE <<>>)
       \o IndexesWithTag(payloads, tag, i + 1)

get_undisclosed_indexes(payloads) == IndexesWithTag(payloads, "Undisclosed", 1)

\* an index list that leaves the tags out
get_disclosed_indexes_all(payloads) == [i \in 1 .. Len(payloads) |-> i]

get_disclosed_indexes(payloads) == IndexesWithTag(payloads, "Disclosed", 1)

get_disclosed_payloads(payloads) ==
  LET idx == get_disclosed_indexes(payloads)
  IN  [k \in 1 .. Len(idx) |-> payloads[idx[k]]]

\* a setter that flips the tag at the index back and forth
Payloads_set_undisclosed_toggle(payloads, index) ==
  [i \in 1 .. Len(payloads) |->
     IF i = index
     THEN [payloads[i] EXCEPT !.tag = IF @ = "Undisclosed" THEN "Disclosed" ELSE "Undisclosed"]
     ELSE payloads[i]]

Payloads_set_undisclosed(payloads, index) ==
  [i \in 1 .. Len(payloads) |->
     IF i = index THEN [payloads[i] EXCEPT !.tag = "Undisclosed"] ELSE payloads[i]]

get_claims_and_payloads(jpt_claims) ==
  [claims   |-> [i \in 1 .. Len(jpt_claims) |-> jpt_claims[i].name],
   payloads |-> Payloads_new_from_values([i \in 1 .. Len(jpt_claims) |-> jpt_claims[i].value])]

----------------------------------------------------------------------------
(* jpt::claims and flattening on JSON values with structure: a value is a
   leaf, an object (its members in insertion order) or an array *)

JsonLeaf(v) == [leaf |-> v]
JsonObject(members) == [obj |-> members]
JsonArray(items) == [arr |-> items]

is_object(v) == "obj" \in DOMAIN v
is_array(v) == "arr" \in DOMAIN v

\* an insertion-ordered map (IndexMap, serde_json::Map): a sequence of entries
contains_key(map, key) == \E i \in 1 .. Len(map) : map[i].name = key

Map_insert(map, key, value) ==
  IF contains_key(map, key)
  THEN [i \in 1 .. Len(map) |->
          IF map[i].name = key THEN [map[i] EXCEPT !.value = value] ELSE map[i]]
  ELSE Append(map, [name |-> key, value |-> value])

RECURSIVE Map_extend(_, _)
Map_extend(map, other) ==
  IF other = <<>> THEN map
  ELSE Map_extend(Map_insert(map, Head(other).name, Head(other).value), Tail(other))

\* Flattener with key separator ".", arrays as "[i]", empty arrays and
\* objects not preserved; flattened is the result so far or the error
RECURSIVE flatten_value(_, _, _)
RECURSIVE flatten_object(_, _, _, _)
RECURSIVE flatten_array(_, _, _, _)
flatten_value(current, parent_key, flattened) ==
  IF ~ IsOk(flattened) THEN flattened
  ELSE IF is_object(current) THEN flatten_object(current.obj, parent_key, 1, flattened)
  ELSE IF is_array(current) THEN flatten_array(current.arr, parent_key, 1, flattened)
  ELSE IF contains_key(flattened.ok, parent_key) THEN Err("KeyWillBeOverwritten")
  ELSE Ok(Append(flattened.ok, [name |-> parent_key, value |-> current]))

flatten_object(members, parent_key, i, flattened) ==
  IF i > Len(members) THEN flattened
  ELSE LET key == IF parent_key = "" THEN members[i].k
                  ELSE parent_key \o "." \o members[i].k
       IN  flatten_object(members, parent_key, i + 1,
                          flatten_value(members[i].v, key, flattened))

flatten_array(items, parent_key, i, flattened) ==
  IF i > Len(items) THEN flattened
  ELSE LET key == parent_key \o "[" \o ToString(i - 1) \o "]"
       IN  flatten_array(items, parent_key, i + 1,
                         flatten_value(items[i], key, flattened))

Flattener_flatten(value) ==
  IF ~ is_object(value) THEN Err("FirstLevelMustBeAnObject")
  ELSE flatten_value(value, "", Ok(<<>>))

json_value_flattening(value) ==
  LET flattened == Flattener_flatten(value)
  IN  IF IsOk(flattened) THEN Ok(flattened.ok) ELSE Panic

JptClaims_new ==
  [iss |-> None, sub |-> None, exp |-> None, nbf |-> None, iat |-> None, jti |-> None,
   custom |-> <<>>]

unwrap_or(o, default) == IF IsSome(o) THEN Unwrap(o) ELSE default

JptClaims_set_claim(self, claim, serde_value, flattened) ==
  IF ~ is_object(serde_value)
  THEN Ok([self EXCEPT !.custom = Map_insert(@, unwrap_or(claim, ""), serde_value)])
  ELSE IF flattened
       THEN LET v == IF IsSome(claim)
                     THEN JsonObject(<<[k |-> Unwrap(claim), v |-> serde_value]>>)
                     ELSE serde_value
                flat == json_value_flattening(v)
            IN  IF IsOk(flat) THEN Ok([self EXCEPT !.custom = Map_extend(@, flat.ok)])
                ELSE Panic
       ELSE Ok([self EXCEPT !.custom = Map_insert(@, unwrap_or(claim, ""), serde_value)])

RegisteredClaims == <<"iss", "sub", "exp", "nbf", "iat", "jti">>

\* serde_json::to_value(&JptClaims): the registered claims that are set, in
\* declared order, then the custom map flattened into the same object
RECURSIVE to_value_registered(_, _)
to_value_registered(self, i) ==
  IF i = 0 THEN <<>>
  ELSE LET map == to_value_registered(self, i - 1)
           name == RegisteredClaims[i]
       IN  IF IsSome(self[name]) THEN Map_insert(map, name, Unwrap(self[name])) ELSE map

to_value_JptClaims(self) ==
  Map_extend(to_value_registered(self, Len(RegisteredClaims)), self.custom)

JptClaims_get_claims_and_payloads(self) == get_claims_and_payloads(to_value_JptClaims(self))

Min(a, b) == IF a < b THEN a ELSE b

JptClaims_from_claims_and_payloads(claims, payloads) ==
  LET zip == [i \in 1 .. Min(Len(claims), Len(payloads)) |->
                <<claims[i], get_values(payloads)[i]>>]
  IN  Panic

----------------------------------------------------------------------------
(* jwp::header with every field *)

\* the headers with every field of the struct, and their JSON text as the
\* members the derived Serialize writes: declared field order, a field that
\* is None left out (skip_serializing_if)
IssuerProtectedHeaderFields ==
  <<"typ", "alg", "kid", "cid", "claims", "crit", "iss", "proof_key">>

PresentationProtectedHeaderFields ==
  <<"alg", "kid", "aud", "nonce", "typ", "crit", "iss", "presentation_key">>

RECURSIVE serialize_struct(_, _, _)
serialize_struct(h, fields, i) ==
  IF i > Len(fields) THEN <<>>
  ELSE (IF fields[i] = "alg" THEN <<[name |-> "alg", value |-> h.alg]>>
        ELSE IF IsSome(h[fields[i]])
             THEN <<[name |-> fields[i], value |-> Unwrap(h[fields[i]])]>>
        ELSE <<>>)
       \o serialize_struct(h, fields, i + 1)

\* the derived Deserialize: members by name, a missing Option field is None,
\* a missing alg is an error
deserialize_struct(members, fields) ==
  IF ~ contains_key(members, "alg") THEN Err("SerializationError")
  ELSE Ok([f \in {fields[i] : i \in 1 .. Len(fields)} |->
             IF ~ contains_key(members, f) THEN None
             ELSE LET value == members[CHOOSE i \in 1 .. Len(members) : members[i].name = f].value
                  IN  IF f = "alg" THEN value ELSE Some(value)])

\* a serializer that writes alg before every other field
Serialize_IssuerProtectedHeader_alg_first(h) ==
  serialize_struct(h, <<"alg", "typ", "kid", "cid", "claims", "crit", "iss", "proof_key">>, 1)

Serialize_IssuerProtectedHeader(h) == serialize_struct(h, IssuerProtectedHeaderFields, 1)

Deserialize_IssuerProtectedHeader(members) ==
  deserialize_struct(members, IssuerProtectedHeaderFields)

Serialize_PresentationProtectedHeader(h) ==
  serialize_struct(h, PresentationProtectedHeaderFields, 1)

Deserialize_PresentationProtectedHeader(members) ==
  deserialize_struct(members, PresentationProtectedHeaderFields)

\* serde_json::to_vec and from_slice of such a header
to_vec_members(members) == [members |-> members]

from_slice_members(bytes) ==
  IF "members" \in DOMAIN bytes THEN Ok(bytes.members) ELSE Err("SerializationError")

----------------------------------------------------------------------------
(* The BBS primitive (zkryptium), idealised: a signature is the term of what
   was signed, a proof of knowledge carries what it reveals and whether the
   signature it was derived from was valid. *)

Suite(alg) == IF alg = "BBS" THEN "SHA256" ELSE "SHAKE256"

BBS_Sign(suite, sk, pk, header, messages) ==
  [sig |-> [suite |-> suite, sk |-> sk, pk |-> pk, header |-> header,
            messages |-> messages]]

BBS_Verify(suite, pk, signature, header, messages) ==
  /\ signature.suite = suite
  /\ signature.pk = pk
  /\ signature.sk = pk
  /\ signature.header = header
  /\ signature.messages = messages

BBS_ProofGen(suite, pk, signature, header, ph, messages, disclosed_indexes) ==
  [pok |-> [valid |-> BBS_Verify(suite, pk, signature, header, messages),
            suite |-> suite, pk |-> pk, header |-> header, ph |-> ph,
            indexes |-> disclosed_indexes,
            disclosed |-> [k \in 1 .. Len(disclosed_indexes) |->
                             messages[disclosed_indexes[k]]]]]

BBS_ProofVerify(suite, pk, proof, header, ph, disclosed_messages, disclosed_indexes) ==
  /\ proof.valid
  /\ proof.suite = suite
  /\ proof.pk = pk
  /\ proof.header = header
  /\ proof.ph = ph
  /\ proof.indexes = disclosed_indexes
  /\ proof.disclosed = disclosed_messages

\* bytes of the right length that are the signature / the proof of nothing
ForgedSignature ==
  [sig |-> [suite |-> "forged", sk |-> 0, pk |-> 0, header |-> EmptyBytes,
            messages |-> <<>>]]
ForgedProof ==
  [pok |-> [valid |-> FALSE, suite |-> "forged", pk |-> 0, header |-> EmptyBytes,
            ph |-> EmptyBytes, indexes |-> <<>>, disclosed |-> <<>>]]
\* bytes of a length that is neither a signature's nor a proof's
JunkBytes == [junk |-> TRUE]

----------------------------------------------------------------------------
(* jpa::bbs_plus *)

message_bytes(payloads) == [i \in 1 .. Len(payloads) |-> to_vec_Value(payloads[i].value)]

generate_issuer_proof(alg, payloads, key, issuer_header) ==
  IF ~ is_private(key) THEN Err(KeyIsNotCompatible)
  ELSE IF ~ check_alg_curve_compatibility(alg, key.key_params.crv) THEN Err(KeyIsNotCompatible)
  ELSE IF alg \notin BbsAlgs THEN Panic
  ELSE Ok(BBS_Sign(Suite(alg), Unwrap(key.key_params.d), key.key_params.x, issuer_header, message_bytes(payloads)))

verify_issuer_proof(alg, key, proof, issuer_header, payloads) ==
  IF ~ is_public(key) THEN Err(KeyIsNotCompatible)
  ELSE IF ~ check_alg_curve_compatibility(alg, key.key_params.crv) THEN Err(KeyIsNotCompatible)
  ELSE IF "sig" \notin DOMAIN proof THEN Panic
  ELSE IF alg \notin BbsAlgs THEN Panic
  ELSE IF BBS_Verify(Suite(alg), key.key_params.x, proof.sig, issuer_header, message_bytes(payloads))
       THEN Ok(TRUE)
       ELSE Err("InvalidIssuedProof")

generate_presentation_proof(alg, signature, payloads, key, issuer_header, presentation_header) ==
  IF ~ is_public(key) THEN Err(KeyIsNotCompatible)
  ELSE IF ~ check_presentation_alg_curve_compatibility(alg, key.key_params.crv)
       THEN Err(KeyIsNotCompatible)
  ELSE IF "sig" \notin DOMAIN signature THEN Panic
  ELSE IF alg \notin BbsAlgs THEN Panic
  ELSE Ok(BBS_ProofGen(Suite(alg), key.key_params.x, signature.sig, issuer_header,
                       presentation_header, message_bytes(payloads),
                       get_disclosed_indexes(payloads)))

\* a verifier that does not look at what the proof check returned
verify_presentation_proof_unchecked(alg, key, proof, presentation_header, issuer_header, payloads) ==
  IF ~ is_public(key) THEN Err(KeyIsNotCompatible)
  ELSE IF ~ check_presentation_alg_curve_compatibility(alg, key.key_params.crv)
       THEN Err(KeyIsNotCompatible)
  ELSE IF "pok" \notin DOMAIN proof THEN Panic
  ELSE IF alg \notin BbsAlgs THEN Panic
  ELSE Ok(TRUE)

verify_presentation_proof(alg, key, proof, presentation_header, issuer_header, payloads) ==
  IF ~ is_public(key) THEN Err(KeyIsNotCompatible)
  ELSE IF ~ check_presentation_alg_curve_compatibility(alg, key.key_params.crv)
       THEN Err(KeyIsNotCompatible)
  ELSE IF "pok" \notin DOMAIN proof THEN Panic
  ELSE IF alg \notin BbsAlgs THEN Panic
  ELSE IF BBS_ProofVerify(Suite(alg), key.key_params.x, proof.pok, issuer_header,
                          presentation_header,
                          message_bytes(get_disclosed_payloads(payloads)),
                          get_disclosed_indexes(payloads))
       THEN Ok(TRUE)
       ELSE Err("InvalidPresentedProof")

----------------------------------------------------------------------------
(* jwp::issued *)

JwpIssuedBuilder_new(issuer_protected_header, jpt_claims) ==
  LET cp == get_claims_and_payloads(jpt_claims)
  IN  [issuer_protected_header |->
         Some(IssuerProtectedHeader_set_claims(issuer_protected_header, Some(cp.claims))),
       payloads |-> Some(cp.payloads)]

JwpIssuedBuilder_build_with_proof(b, proof) ==
  IF ~ IsSome(b.issuer_protected_header) THEN Err("NoIssuerHeader")
  ELSE IF ~ IsSome(b.payloads) THEN Err("NoClaimsAndPayloads")
  ELSE Ok([issuer_protected_header |-> Unwrap(b.issuer_protected_header),
           payloads |-> Unwrap(b.payloads),
           proof |-> proof])

JwpIssuedBuilder_generate_proof(alg, key, issuer_header_oct, payloads) ==
  IF alg \in BbsAlgs THEN generate_issuer_proof(alg, payloads, key, issuer_header_oct)
  ELSE Panic

JwpIssuedBuilder_build(b, jwk) ==
  IF ~ IsSome(b.issuer_protected_header) THEN Err("NoIssuerHeader")
  ELSE IF ~ IsSome(b.payloads) THEN Err("NoClaimsAndPayloads")
  ELSE LET header == Unwrap(b.issuer_protected_header)
           payloads == Unwrap(b.payloads)
           issuer_header_oct == to_vec_IssuerProtectedHeader(header)
           proof == JwpIssuedBuilder_generate_proof(header.alg, jwk, issuer_header_oct, payloads)
       IN  IF Failed(proof) THEN proof
           ELSE Ok([issuer_protected_header |-> header,
                    payloads |-> payloads,
                    proof |-> proof.ok])

\* the '~'-joined payload tokens, shared by both compact forms
\* a serializer that writes the value whatever the tag
SerializePayloadToken_any(p) == base64url_encode_serializable(p.value)

SerializePayloadToken(p) ==
  IF p.tag = "Undisclosed" THEN <<>> ELSE base64url_encode_serializable(p.value)

encoded_payloads(payloads) ==
  join([i \in 1 .. Len(payloads) |-> SerializePayloadToken(payloads[i])], Tilde)

\* a serializer that puts the proof before the payloads
JwpIssued_serialize_swapped(issuer_header_oct, payloads, proof) ==
  base64url_encode(issuer_header_oct) \o <<Dot>> \o
  base64url_encode(proof) \o <<Dot>> \o
  encoded_payloads(payloads)

JwpIssued_serialize(issuer_header_oct, payloads, proof) ==
  base64url_encode(issuer_header_oct) \o <<Dot>> \o
  encoded_payloads(payloads) \o <<Dot>> \o
  base64url_encode(proof)

JwpIssued_encode(jwp) ==
  JwpIssued_serialize(to_vec_IssuerProtectedHeader(jwp.issuer_protected_header),
                      jwp.payloads, jwp.proof)

JwpIssued_set_claims(jwp, claims) ==
  [jwp EXCEPT !.issuer_protected_header =
     IssuerProtectedHeader_set_claims(jwp.issuer_protected_header, Some(claims))]

JwpIssued_set_payloads(jwp, payloads) == [jwp EXCEPT !.payloads = payloads]

JwpIssued_set_proof(jwp, proof) == [jwp EXCEPT !.proof = proof]

\* one payload token of a compact string
\* a decoder that tags every token Disclosed
DecodePayloadToken_disclosed(v) ==
  IF v = <<>> THEN Ok([value |-> "null", tag |-> "Disclosed"])
  ELSE LET bytes == base64url_decode(v)
       IN  IF Failed(bytes) THEN Panic
           ELSE LET value == from_slice_Value(bytes.ok)
                IN  IF Failed(value) THEN Panic
                    ELSE Ok([value |-> value.ok, tag |-> "Disclosed"])

DecodePayloadToken(v) ==
  IF v = <<>> THEN Ok([value |-> "null", tag |-> "Undisclosed"])
  ELSE LET bytes == base64url_decode(v)
       IN  IF Failed(bytes) THEN Panic
           ELSE LET value == from_slice_Value(bytes.ok)
                IN  IF Failed(value) THEN Panic
                    ELSE Ok([value |-> value.ok, tag |-> "Disclosed"])

\* the payload segment split into as many tokens as the header has claims
DecodePayloads(encoded, n) ==
  LET toks == splitn(encoded, n, Tilde)
      res == [i \in 1 .. Len(toks) |-> DecodePayloadToken(toks[i])]
  IN  IF \E i \in 1 .. Len(res) : Failed(res[i]) THEN Panic
      ELSE Ok([i \in 1 .. Len(res) |-> res[i].ok])

JwpIssuedDecoder_decode(jpt) ==
  LET parts == splitn(jpt, 3, Dot)
  IN  IF Len(parts) < 3 THEN Err("InvalidIssuedJwp")
      ELSE
      LET header_oct == base64url_decode(parts[1])
      IN  IF Failed(header_oct) THEN Panic
          ELSE
          LET header == from_slice_IssuerProtectedHeader(header_oct.ok)
          IN  IF Failed(header) THEN Err("SerializationError")
              ELSE IF ~ IsSome(header.ok.claims) THEN Panic
              ELSE
              LET payloads == DecodePayloads(parts[2], Len(Unwrap(header.ok.claims)))
              IN  IF Failed(payloads) THEN Panic
                  ELSE IF Len(Unwrap(header.ok.claims)) # Len(payloads.ok)
                       THEN Err("InvalidIssuedJwp")
                  ELSE
                  LET proof == base64url_decode(parts[3])
                  IN  IF Failed(proof) THEN Panic
                      ELSE Ok([issuer_protected_header |-> header.ok,
                               payloads |-> payloads.ok,
                               proof |-> proof.ok])

JwpIssuedDecoder_verify_proof(alg, key, proof, issuer_header_oct, payloads) ==
  IF alg \in BbsAlgs THEN verify_issuer_proof(alg, key, proof, issuer_header_oct, payloads)
  ELSE Panic

JwpIssuedDecoder_verify(d, key) ==
  LET issuer_header_oct == to_vec_IssuerProtectedHeader(d.issuer_protected_header)
      check == JwpIssuedDecoder_verify_proof(d.issuer_protected_header.alg, key, d.proof,
                                             issuer_header_oct, d.payloads)
  IN  IF Failed(check) THEN check
      ELSE Ok([issuer_protected_header |-> d.issuer_protected_header,
               payloads |-> d.payloads,
               proof |-> d.proof])

----------------------------------------------------------------------------
(* jwp::presented *)

JwpPresentedBuilder_new(issued_jwp) ==
  [issuer_protected_header |-> issued_jwp.issuer_protected_header,
   presentation_protected_header |-> None,
   payloads |-> issued_jwp.payloads,
   issuer_proof |-> issued_jwp.proof]

JwpPresentedBuilder_set_presentation_protected_header(b, header) ==
  [b EXCEPT !.presentation_protected_header = Some(header)]

\* Iterator::position: the first index holding the claim, 0 when there is none
RECURSIVE position(_, _, _)
position(claims, claim, i) ==
  IF i > Len(claims) THEN 0
  ELSE IF claims[i] = claim THEN i
  ELSE position(claims, claim, i + 1)

\* a lookup that takes an absent name for nothing to hide
JwpPresentedBuilder_set_undisclosed_lenient(b, claim) ==
  LET index == IF IsSome(b.issuer_protected_header.claims)
               THEN position(Unwrap(b.issuer_protected_header.claims), claim, 1)
               ELSE 0
  IN  Ok([b EXCEPT !.payloads = Payloads_set_undisclosed(b.payloads, index)])

JwpPresentedBuilder_set_undisclosed(b, claim) ==
  LET index == IF IsSome(b.issuer_protected_header.claims)
               THEN position(Unwrap(b.issuer_protected_header.claims), claim, 1)
               ELSE 0
  IN  IF index = 0 THEN Err("SelectiveDisclosureError")
      ELSE Ok([b EXCEPT !.payloads = Payloads_set_undisclosed(b.payloads, index)])

JwpPresentedBuilder_build_with_proof(b, proof) ==
  IF ~ IsSome(b.presentation_protected_header) THEN Err("NoIssuerHeader")
  ELSE Ok([issuer_protected_header |-> b.issuer_protected_header,
           presentation_protected_header |-> Unwrap(b.presentation_protected_header),
           payloads |-> b.payloads,
           proof |-> proof])

JwpPresentedBuilder_generate_proof(alg, key, issuer_proof, issuer_header_oct, presentation_header_oct, payloads) ==
  IF alg \in BbsAlgs
  THEN generate_presentation_proof(alg, issuer_proof, payloads, key, issuer_header_oct,
                                   presentation_header_oct)
  ELSE Panic

\* a build that lists only the names of the claims it discloses
JwpPresentedBuilder_build_disclosed_names(b, jwk) ==
  IF ~ IsSome(b.presentation_protected_header) THEN Err("NoIssuerHeader")
  ELSE LET ph == Unwrap(b.presentation_protected_header)
           issuer_header_oct == to_vec_IssuerProtectedHeader(b.issuer_protected_header)
           presentation_header_oct == to_vec_PresentationProtectedHeader(ph)
           proof == JwpPresentedBuilder_generate_proof(ph.alg, jwk, b.issuer_proof,
                      issuer_header_oct, presentation_header_oct, b.payloads)
           names == Unwrap(b.issuer_protected_header.claims)
           idx == get_disclosed_indexes(b.payloads)
       IN  IF Failed(proof) THEN proof
           ELSE Ok([issuer_protected_header |->
                      IssuerProtectedHeader_set_claims(b.issuer_protected_header,
                        Some([k \in 1 .. Len(idx) |-> names[idx[k]]])),
                    presentation_protected_header |-> ph,
                    payloads |-> b.payloads,
                    proof |-> proof.ok])

JwpPresentedBuilder_build(b, jwk) ==
  IF ~ IsSome(b.presentation_protected_header) THEN Err("NoIssuerHeader")
  ELSE LET ph == Unwrap(b.presentation_protected_header)
           issuer_header_oct == to_vec_IssuerProtectedHeader(b.issuer_protected_header)
           presentation_header_oct == to_vec_PresentationProtectedHeader(ph)
           proof == JwpPresentedBuilder_generate_proof(ph.alg, jwk, b.issuer_proof,
                      issuer_header_oct, presentation_header_oct, b.payloads)
       IN  IF Failed(proof) THEN proof
           ELSE Ok([issuer_protected_header |-> b.issuer_protected_header,
                    presentation_protected_header |-> ph,
                    payloads |-> b.payloads,
                    proof |-> proof.ok])

\* a serializer that writes every payload value, hidden or not
JwpPresented_serialize_values(presentation_header_oct, issuer_header_oct, payloads, proof) ==
  base64url_encode(issuer_header_oct) \o <<Dot>> \o
  base64url_encode(presentation_header_oct) \o <<Dot>> \o
  join([i \in 1 .. Len(payloads) |-> base64url_encode_serializable(payloads[i].value)], Tilde)
  \o <<Dot>> \o base64url_encode(proof)

JwpPresented_serialize(presentation_header_oct, issuer_header_oct, payloads, proof) ==
  base64url_encode(issuer_header_oct) \o <<Dot>> \o
  base64url_encode(presentation_header_oct) \o <<Dot>> \o
  encoded_payloads(payloads) \o <<Dot>> \o
  base64url_encode(proof)

JwpPresented_encode(jwp) ==
  JwpPresented_serialize(to_vec_PresentationProtectedHeader(jwp.presentation_protected_header),
                         to_vec_IssuerProtectedHeader(jwp.issuer_protected_header),
                         jwp.payloads, jwp.proof)

JwpPresentedDecoder_decode(jpt) ==
  LET parts == splitn(jpt, 4, Dot)
  IN  IF Len(parts) < 4 THEN Err("InvalidPresentedJwp")
      ELSE
      LET ph_oct == base64url_decode(parts[2])
      IN  IF Failed(ph_oct) THEN Panic
          ELSE
          LET ph == from_slice_PresentationProtectedHeader(ph_oct.ok)
          IN  IF Failed(ph) THEN Err("SerializationError")
              ELSE
              LET header_oct == base64url_decode(parts[1])
              IN  IF Failed(header_oct) THEN Panic
                  ELSE
                  LET header == from_slice_IssuerProtectedHeader(header_oct.ok)
                  IN  IF Failed(header) THEN Err("SerializationError")
                      ELSE IF ~ IsSome(header.ok.claims) THEN Panic
                      ELSE
                      LET payloads == DecodePayloads(parts[3], Len(Unwrap(header.ok.claims)))
                      IN  IF Failed(payloads) THEN Panic
                          ELSE IF Len(Unwrap(header.ok.claims)) # Len(payloads.ok)
                               THEN Err("InvalidIssuedJwp")
                          ELSE
                          LET proof == base64url_decode(parts[4])
                          IN  IF Failed(proof) THEN Panic
                              ELSE Ok([issuer_protected_header |-> header.ok,
                                       presentation_protected_header |-> ph.ok,
                                       payloads |-> payloads.ok,
                                       proof |-> proof.ok])

JwpPresentedDecoder_verify_proof(alg, key, proof, presentation_header_oct, issuer_header_oct, payloads) ==
  IF alg \in BbsAlgs
  THEN verify_presentation_proof(alg, key, proof, presentation_header_oct,
                                 issuer_header_oct, payloads)
  ELSE Panic

JwpPresentedDecoder_verify(d, key) ==
  LET issuer_header_oct == to_vec_IssuerProtectedHeader(d.issuer_protected_header)
      presentation_header_oct ==
        to_vec_PresentationProtectedHeader(d.presentation_protected_header)
      check == JwpPresentedDecoder_verify_proof(d.presentation_protected_header.alg, key,
                 d.proof, presentation_header_oct, issuer_header_oct, d.payloads)
  IN  IF Failed(check) THEN check
      ELSE Ok([issuer_protected_header |-> d.issuer_protected_header,
               presentation_protected_header |-> d.presentation_protected_header,
               payloads |-> d.payloads,
               proof |-> d.proof])

----------------------------------------------------------------------------
(* What may happen to a compact string between encode and decode *)

OtherBbsAlg(alg) == IF alg = "BBS" THEN "BBS-SHAKE256" ELSE "BBS"
OtherValue(v) == IF v = "x" THEN "y" ELSE "x"

\* what can stand where the chunk carrying bytes stood (nothing, for an
\* emptied payload token), each with the way it differs
Replacements(bytes) ==
  {[how |-> "notjson", chunk |-> << [b64 |-> JunkBytes] >>],
   [how |-> "badb64", chunk |-> << BadChunk >>]}
  \cup
  (IF "ih" \in DOMAIN bytes
   THEN {[how |-> "respelled", chunk |-> << [b64 |-> [bytes EXCEPT !.sp = 1]] >>],
         [how |-> "changed",
          chunk |-> << [b64 |-> [bytes EXCEPT !.ih.alg = OtherBbsAlg(bytes.ih.alg)]] >>]}
   ELSE IF "ph" \in DOMAIN bytes
   THEN {[how |-> "respelled", chunk |-> << [b64 |-> [bytes EXCEPT !.sp = 1]] >>],
         [how |-> "changed", chunk |-> << [b64 |-> [bytes EXCEPT !.ph.nonce = Some("n2")]] >>],
         [how |-> "changed", chunk |-> << [b64 |-> [bytes EXCEPT !.ph.aud = Some("aud2")]] >>]}
   ELSE IF "jv" \in DOMAIN bytes
   THEN {[how |-> "respelled", chunk |-> << [b64 |-> [bytes EXCEPT !.sp = 1]] >>],
         [how |-> "changed", chunk |-> << [b64 |-> [bytes EXCEPT !.jv = OtherValue(bytes.jv)]] >>],
         [how |-> "emptied", chunk |-> << >>]}
   ELSE IF "sig" \in DOMAIN bytes
   THEN {[how |-> "changed", chunk |-> << [b64 |-> ForgedSignature] >>]}
   ELSE IF "pok" \in DOMAIN bytes
   THEN {[how |-> "changed", chunk |-> << [b64 |-> ForgedProof] >>]}
   ELSE {})

\* the string with the chunk at position i replaced
Splice(s, i, chunk) == SubSeq(s, 1, i - 1) \o chunk \o SubSeq(s, i + 1, Len(s))

\* number of '.' before position i: the piece position i lies in, from 0
RECURSIVE DotsBefore(_, _)
DotsBefore(s, i) ==
  IF i <= 1 THEN 0
  ELSE DotsBefore(s, i - 1) + (IF s[i - 1] = Dot THEN 1 ELSE 0)

NoTamper == [piece |-> "none", how |-> "none"]

IssuedPieces == <<"issuer_header", "payloads", "proof">>
PresentedPieces == <<"issuer_header", "presentation_header", "payloads", "proof">>

----------------------------------------------------------------------------
(* State *)

VARIABLES
  jptClaims,     \* the claim set the issuer starts from
  issuerAlg,     \* the algorithm of the issuer header
  sk,            \* the issuer's key pair
  issued,        \* Option<JwpIssued>: what the issued builder returned
  issuedSrc,     \* how it was made and whether a setter changed it since
  jpt,           \* Option<compact issued string>
  jptTamper,     \* what was done to it after encode
  idec,          \* Option<JwpIssuedDecoder>
  vissued,       \* Option<JwpIssued>: what JwpIssuedDecoder::verify returned
  pb,            \* Option<JwpPresentedBuilder>
  pbSeed,        \* which JwpIssued seeded it
  presented,     \* Option<JwpPresented>: what the presented builder returned
  pjpt,          \* Option<compact presented string>
  pjptTamper,    \* what was done to it after encode
  pdec,          \* Option<JwpPresentedDecoder>
  vpresented,    \* Option<JwpPresented>: what JwpPresentedDecoder::verify returned
  res,           \* the outcome of each operation so far, and the key it was given
  arg,           \* the input of a single call made on its own
  ret            \* Option<what that call returned>

flow == <<jptClaims, issuerAlg, sk, issued, issuedSrc, jpt, jptTamper, idec, vissued,
          pb, pbSeed, presented, pjpt, pjptTamper, pdec, vpresented, res>>

unit == <<arg, ret>>

vars == <<flow, unit>>

Outcome(r) == IF IsOk(r) THEN "ok" ELSE IF IsPanic(r) THEN "panic" ELSE r.err
OkOrNone(r) == IF IsOk(r) THEN Some(r.ok) ELSE None

Ops == {"ibuild", "idecode", "iverify", "pbuild", "pdecode", "pverify"}
NotRun == [out |-> "-", key |-> 0]

PublicJwk(k) == Unwrap(Jwk_to_public(Jwk_generate(k)))

PresentationHeaders ==
  { [alg |-> a, aud |-> Some("aud1"), nonce |-> n] :
      a \in PresentationProofAlgorithms, n \in {None, Some("n1")} }

NoCall == [idle |-> TRUE]

Init ==
  /\ jptClaims \in {c \in JptClaimsSet : WellFormedJptClaims(c)}
  /\ issuerAlg \in ProofAlgorithms
  /\ sk = 1
  /\ issued = None
  /\ issuedSrc = [by |-> "none", altered |-> FALSE]
  /\ jpt = None
  /\ jptTamper = NoTamper
  /\ idec = None
  /\ vissued = None
  /\ pb = None
  /\ pbSeed = "none"
  /\ presented = None
  /\ pjpt = None
  /\ pjptTamper = NoTamper
  /\ pdec = None
  /\ vpresented = None
  /\ res = [op \in Ops |-> NotRun]
  /\ arg = NoCall
  /\ ret = None

----------------------------------------------------------------------------
(* Issuer *)

\* JwpIssuedBuilder::new(header, jpt_claims).build(&jwk)
IssuedBuild ==
  /\ issuedSrc.by = "none"
  /\ res["ibuild"] = NotRun
  /\ LET b == JwpIssuedBuilder_new(IssuerProtectedHeader_new(issuerAlg), jptClaims)
         r == JwpIssuedBuilder_build(b, Jwk_generate(sk))
     IN  /\ issued' = OkOrNone(r)
         /\ issuedSrc' = [by |-> IF IsOk(r) THEN "build" ELSE "none", altered |-> FALSE]
         /\ res' = [res EXCEPT !["ibuild"] = [out |-> Outcome(r), key |-> sk]]
  /\ UNCHANGED <<unit, jptClaims, issuerAlg, sk, jpt, jptTamper, idec, vissued, pb, pbSeed,
                 presented, pjpt, pjptTamper, pdec, vpresented>>

\* JwpIssuedBuilder::new(header, jpt_claims).build_with_proof(proof)
IssuedBuildWithProof ==
  /\ issuedSrc.by = "none"
  /\ res["ibuild"] = NotRun
  /\ \E proof \in {ForgedSignature, JunkBytes} :
       LET b == JwpIssuedBuilder_new(IssuerProtectedHeader_new(issuerAlg), jptClaims)
           r == JwpIssuedBuilder_build_with_proof(b, proof)
       IN  /\ issued' = OkOrNone(r)
           /\ issuedSrc' = [by |-> "build_with_proof", altered |-> FALSE]
  /\ UNCHANGED <<unit, jptClaims, issuerAlg, sk, jpt, jptTamper, idec, vissued, pb, pbSeed,
                 presented, pjpt, pjptTamper, pdec, vpresented, res>>

\* the setters of a JwpIssued, before it is encoded or seeds a builder
CanAlter == IsSome(issued) /\ ~ issuedSrc.altered /\ jpt = None /\ pb = None

IssuedSetClaims ==
  /\ CanAlter
  /\ \E n \in 0 .. MaxClaims :
       /\ n # Len(Unwrap(issued).payloads)
       /\ issued' = Some(JwpIssued_set_claims(Unwrap(issued), [i \in 1 .. n |-> ClaimNames[i]]))
  /\ issuedSrc' = [issuedSrc EXCEPT !.altered = TRUE]
  /\ UNCHANGED <<unit, jptClaims, issuerAlg, sk, jpt, jptTamper, idec, vissued, pb, pbSeed,
                 presented, pjpt, pjptTamper, pdec, vpresented, res>>

IssuedSetPayloads ==
  /\ CanAlter
  /\ \E n \in 0 .. MaxClaims, v \in JsonValues :
       issued' = Some(JwpIssued_set_payloads(Unwrap(issued),
                        Payloads_new_from_values([i \in 1 .. n |-> v])))
  /\ issued' # issued
  /\ issuedSrc' = [issuedSrc EXCEPT !.altered = TRUE]
  /\ UNCHANGED <<unit, jptClaims, issuerAlg, sk, jpt, jptTamper, idec, vissued, pb, pbSeed,
                 presented, pjpt, pjptTamper, pdec, vpresented, res>>

IssuedSetProof ==
  /\ CanAlter
  /\ issued' = Some(JwpIssued_set_proof(Unwrap(issued), ForgedSignature))
  /\ issued' # issued
  /\ issuedSrc' = [issuedSrc EXCEPT !.altered = TRUE]
  /\ UNCHANGED <<unit, jptClaims, issuerAlg, sk, jpt, jptTamper, idec, vissued, pb, pbSeed,
                 presented, pjpt, pjptTamper, pdec, vpresented, res>>

\* JwpIssued::encode(COMPACT)
IssuedEncode ==
  /\ pb = None
  /\ IsSome(issued)
  /\ jpt = None
  /\ jpt' = Some(JwpIssued_encode(Unwrap(issued)))
  /\ UNCHANGED <<unit, jptClaims, issuerAlg, sk, issued, issuedSrc, jptTamper, idec, vissued, pb,
                 pbSeed, presented, pjpt, pjptTamper, pdec, vpresented, res>>

\* one chunk of the compact issued string is replaced on the way to the holder
IssuedTamper ==
  /\ pb = None
  /\ IsSome(jpt)
  /\ jptTamper = NoTamper
  /\ res["idecode"] = NotRun
  /\ \E i \in 1 .. Len(Unwrap(jpt)) :
       /\ "b64" \in DOMAIN Unwrap(jpt)[i]
       /\ \E rep \in Replacements(Unwrap(jpt)[i].b64) :
            /\ jpt' = Some(Splice(Unwrap(jpt), i, rep.chunk))
            /\ jptTamper' = [piece |-> IssuedPieces[DotsBefore(Unwrap(jpt), i) + 1],
                             how |-> rep.how]
  /\ UNCHANGED <<unit, jptClaims, issuerAlg, sk, issued, issuedSrc, idec, vissued, pb, pbSeed,
                 presented, pjpt, pjptTamper, pdec, vpresented, res>>

----------------------------------------------------------------------------
(* Holder *)

\* JwpIssuedDecoder::decode(&jpt, COMPACT)
IssuedDecode ==
  /\ pb = None
  /\ IsSome(jpt)
  /\ res["idecode"] = NotRun
  /\ LET r == JwpIssuedDecoder_decode(Unwrap(jpt))
     IN  /\ idec' = OkOrNone(r)
         /\ res' = [res EXCEPT !["idecode"] = [out |-> Outcome(r), key |-> 0]]
  /\ UNCHANGED <<unit, jptClaims, issuerAlg, sk, issued, issuedSrc, jpt, jptTamper, vissued, pb,
                 pbSeed, presented, pjpt, pjptTamper, pdec, vpresented>>

\* JwpIssuedDecoder::verify(&public key)
IssuedVerify ==
  /\ pb = None
  /\ IsSome(idec)
  /\ res["iverify"] = NotRun
  /\ \E k \in Keys :
       LET r == JwpIssuedDecoder_verify(Unwrap(idec), PublicJwk(k))
       IN  /\ vissued' = OkOrNone(r)
           /\ res' = [res EXCEPT !["iverify"] = [out |-> Outcome(r), key |-> k]]
  /\ UNCHANGED <<unit, jptClaims, issuerAlg, sk, issued, issuedSrc, jpt, jptTamper, idec, pb,
                 pbSeed, presented, pjpt, pjptTamper, pdec, vpresented>>

\* JwpPresentedBuilder::new(&issued_jwp)
PresentedBuilderNew ==
  /\ pb = None
  /\ \E seed \in {"issued", "vissued"} :
       LET from == IF seed = "issued" THEN issued ELSE vissued
       IN  /\ IsSome(from)
           /\ seed = "issued" => jpt = None
           /\ pb' = Some(JwpPresentedBuilder_new(Unwrap(from)))
           /\ pbSeed' = seed
  /\ UNCHANGED <<unit, jptClaims, issuerAlg, sk, issued, issuedSrc, jpt, jptTamper, idec, vissued,
                 presented, pjpt, pjptTamper, pdec, vpresented, res>>

SetPresentationProtectedHeader ==
  /\ IsSome(pb)
  /\ res["pbuild"] = NotRun
  /\ \E h \in PresentationHeaders :
       pb' = Some(JwpPresentedBuilder_set_presentation_protected_header(Unwrap(pb), h))
  /\ pb' # pb
  /\ UNCHANGED <<unit, jptClaims, issuerAlg, sk, issued, issuedSrc, jpt, jptTamper, idec, vissued,
                 pbSeed, presented, pjpt, pjptTamper, pdec, vpresented, res>>

\* JwpPresentedBuilder::set_undisclosed(claim); an error leaves the builder as it is
SetUndisclosed ==
  /\ IsSome(pb)
  /\ res["pbuild"] = NotRun
  /\ \E i \in 1 .. MaxClaims + 1 :
       LET r == JwpPresentedBuilder_set_undisclosed(Unwrap(pb), ClaimNames[i])
       IN  pb' = IF IsOk(r) THEN Some(r.ok) ELSE pb
  /\ pb' # pb
  /\ UNCHANGED <<unit, jptClaims, issuerAlg, sk, issued, issuedSrc, jpt, jptTamper, idec, vissued,
                 pbSeed, presented, pjpt, pjptTamper, pdec, vpresented, res>>

\* JwpPresentedBuilder::build(&public key)
PresentedBuild ==
  /\ IsSome(pb)
  /\ res["pbuild"] = NotRun
  /\ \E k \in Keys :
       LET r == JwpPresentedBuilder_build(Unwrap(pb), PublicJwk(k))
       IN  /\ presented' = OkOrNone(r)
           /\ res' = [res EXCEPT !["pbuild"] = [out |-> Outcome(r), key |-> k]]
  /\ UNCHANGED <<unit, jptClaims, issuerAlg, sk, issued, issuedSrc, jpt, jptTamper, idec, vissued,
                 pb, pbSeed, pjpt, pjptTamper, pdec, vpresented>>

\* JwpPresented::encode(COMPACT)
PresentedEncode ==
  /\ IsSome(presented)
  /\ pjpt = None
  /\ pjpt' = Some(JwpPresented_encode(Unwrap(presented)))
  /\ UNCHANGED <<unit, jptClaims, issuerAlg, sk, issued, issuedSrc, jpt, jptTamper, idec, vissued,
                 pb, pbSeed, presented, pjptTamper, pdec, vpresented, res>>

\* one chunk of the compact presented string is replaced on the way to the verifier
PresentedTamper ==
  /\ IsSome(pjpt)
  /\ pjptTamper = NoTamper
  /\ res["pdecode"] = NotRun
  /\ \E i \in 1 .. Len(Unwrap(pjpt)) :
       /\ "b64" \in DOMAIN Unwrap(pjpt)[i]
       /\ \E rep \in Replacements(Unwrap(pjpt)[i].b64) :
            /\ pjpt' = Some(Splice(Unwrap(pjpt), i, rep.chunk))
            /\ pjptTamper' = [piece |-> PresentedPieces[DotsBefore(Unwrap(pjpt), i) + 1],
                              how |-> rep.how]
  /\ UNCHANGED <<unit, jptClaims, issuerAlg, sk, issued, issuedSrc, jpt, jptTamper, idec, vissued,
                 pb, pbSeed, presented, pdec, vpresented, res>>

----------------------------------------------------------------------------
(* Verifier *)

\* JwpPresentedDecoder::decode(&jpt, COMPACT)
PresentedDecode ==
  /\ IsSome(pjpt)
  /\ res["pdecode"] = NotRun
  /\ LET r == JwpPresentedDecoder_decode(Unwrap(pjpt))
     IN  /\ pdec' = OkOrNone(r)
         /\ res' = [res EXCEPT !["pdecode"] = [out |-> Outcome(r), key |-> 0]]
  /\ UNCHANGED <<unit, jptClaims, issuerAlg, sk, issued, issuedSrc, jpt, jptTamper, idec, vissued,
                 pb, pbSeed, presented, pjpt, pjptTamper, vpresented>>

\* JwpPresentedDecoder::verify(&public key)
PresentedVerify ==
  /\ IsSome(pdec)
  /\ res["pverify"] = NotRun
  /\ \E k \in Keys :
       LET r == JwpPresentedDecoder_verify(Unwrap(pdec), PublicJwk(k))
       IN  /\ vpresented' = OkOrNone(r)
           /\ res' = [res EXCEPT !["pverify"] = [out |-> Outcome(r), key |-> k]]
  /\ UNCHANGED <<unit, jptClaims, issuerAlg, sk, issued, issuedSrc, jpt, jptTamper, idec, vissued,
                 pb, pbSeed, presented, pjpt, pjptTamper, pdec>>

Next ==
  \/ IssuedBuild
  \/ IssuedBuildWithProof
  \/ IssuedSetClaims
  \/ IssuedSetPayloads
  \/ IssuedSetProof
  \/ IssuedEncode
  \/ IssuedTamper
  \/ IssuedDecode
  \/ IssuedVerify
  \/ PresentedBuilderNew
  \/ SetPresentationProtectedHeader
  \/ SetUndisclosed
  \/ PresentedBuild
  \/ PresentedEncode
  \/ PresentedTamper
  \/ PresentedDecode
  \/ PresentedVerify

Spec == Init /\ [][Next]_vars

----------------------------------------------------------------------------
(* Properties *)

\* the issued JWP came from JwpIssuedBuilder::build and no setter touched it
IssuedGenuine == issuedSrc = [by |-> "build", altered |-> FALSE]

\* the presentation builder was seeded by a JwpIssued as build or verify returned it
WellSeeded == pbSeed = "vissued" \/ (pbSeed = "issued" /\ ~ issuedSrc.altered)

Ran(op) == res[op] # NotRun

\* C1: an issued JWP that was built, encoded, decoded from that string and
\* verified with the public half of the signing key is returned equal to the
\* built one in header, payloads (values and tags) and proof bytes.
IssuedRoundTrip ==
  (IssuedGenuine /\ jptTamper = NoTamper) =>
    /\ Ran("idecode") => res["idecode"].out = "ok"
    /\ res["iverify"].key = sk => (res["iverify"].out = "ok" /\ vissued = issued)

IssuedRoundTripWitness ==
  /\ IssuedGenuine
  /\ jptTamper = NoTamper
  /\ res["iverify"] = [out |-> "ok", key |-> sk]
  /\ vissued = issued
  /\ Len(Unwrap(issued).payloads) >= 2

\* what decoding leaves of a presented JWP: hidden values are JSON null
EraseUndisclosed(p) ==
  [p EXCEPT !.payloads =
     [i \in 1 .. Len(p.payloads) |->
        IF p.payloads[i].tag = "Undisclosed"
        THEN [value |-> "null", tag |-> "Undisclosed"]
        ELSE p.payloads[i]]]

\* C2 as stated: the presented JWP that decode and verify return equals the
\* built one component-wise, payload values included, for any undisclosed subset.
PresentedRoundTripExact ==
  (pbSeed = "vissued" /\ pjptTamper = NoTamper /\ res["pverify"].out = "ok")
    => vpresented = presented

\* C2 amended: decoding the encoded presented JWP succeeds and gives the built
\* one with the value of every Undisclosed payload replaced by JSON null, and
\* verify returns that same value; headers, tags, proof bytes and the values
\* of Disclosed payloads are those of the built one.
PresentedRoundTrip ==
  (pbSeed = "vissued" /\ pjptTamper = NoTamper) =>
    /\ Ran("pdecode") => /\ res["pdecode"].out = "ok"
                         /\ Unwrap(pdec) = EraseUndisclosed(Unwrap(presented))
    /\ res["pverify"].out = "ok" => Unwrap(vpresented) = EraseUndisclosed(Unwrap(presented))

PresentedRoundTripWitness ==
  /\ pbSeed = "vissued"
  /\ pjptTamper = NoTamper
  /\ res["pverify"].out = "ok"
  /\ \E i, j \in 1 .. Len(Unwrap(presented).payloads) :
       /\ Unwrap(presented).payloads[i].tag = "Undisclosed"
       /\ Unwrap(presented).payloads[i].value # "null"
       /\ Unwrap(presented).payloads[j].tag = "Disclosed"
  /\ Unwrap(vpresented) = EraseUndisclosed(Unwrap(presented))

\* C3: an issued JWP built with sk verifies under the public half of sk, and a
\* presented JWP derived from it, for any undisclosed subset and any
\* presentation header, and built with that public key, verifies under it.
VerifyAfterBuild ==
  /\ (IssuedGenuine /\ jptTamper = NoTamper /\ res["iverify"].key = sk)
       => res["iverify"].out = "ok"
  /\ (IssuedGenuine /\ res["pbuild"] = [out |-> "ok", key |-> sk]
        /\ pjptTamper = NoTamper /\ res["pverify"].key = sk)
       => res["pverify"].out = "ok"

\* the positions marked undisclosed in the presentation builder
UndisclosedSet(payloads) ==
  {i \in 1 .. Len(payloads) : payloads[i].tag = "Undisclosed"}

\* C4: the payload segment of the encoded presented JWP has one token per
\* claim, separated by '~'; the token is empty exactly at the positions marked
\* undisclosed in the builder, and elsewhere it is the base64url of the JSON
\* encoding of the value at that position.
HidingEncoding ==
  (IsSome(pjpt) /\ pjptTamper = NoTamper /\ WellSeeded) =>
    LET seg  == splitn(Unwrap(pjpt), 4, Dot)[3]
        toks == splitn(seg, Len(seg) + 1, Tilde)
        p    == Unwrap(pb).payloads
        S    == UndisclosedSet(p)
        n    == Len(Unwrap(Unwrap(pb).issuer_protected_header.claims))
    IN  /\ n = 0 => seg = <<>>
        /\ n > 0 =>
             /\ Len(toks) = n
             /\ \A i \in 1 .. n :
                  /\ toks[i] = <<>> <=> i \in S
                  /\ i \notin S => toks[i] = << [b64 |-> [jv |-> p[i].value, sp |-> 0]] >>

HidingEncodingWitness ==
  /\ IsSome(pjpt)
  /\ pjptTamper = NoTamper
  /\ WellSeeded
  /\ Len(Unwrap(pb).payloads) >= 2
  /\ UndisclosedSet(Unwrap(pb).payloads) # {}
  /\ UndisclosedSet(Unwrap(pb).payloads) # 1 .. Len(Unwrap(pb).payloads)

\* C5: the JwpIssued that seeded a presentation builder is valid: its proof
\* verifies for its header and payloads under some public key.
SeedIsValid ==
  IsSome(pb) =>
    \E k \in Keys :
      IsOk(verify_issuer_proof(Unwrap(pb).issuer_protected_header.alg, PublicJwk(k),
             Unwrap(pb).issuer_proof,
             to_vec_IssuerProtectedHeader(Unwrap(pb).issuer_protected_header),
             Unwrap(pb).payloads))

\* C6: once the header octets carried in a header piece of a compact issued or
\* presented token were changed, decode-then-verify never ends in a
\* successful verification.
HeaderTamperDetected ==
  /\ jptTamper.piece = "issuer_header"
       => (res["iverify"].out # "ok" /\ vissued = None)
  /\ pjptTamper.piece \in {"issuer_header", "presentation_header"}
       => (res["pverify"].out # "ok" /\ vpresented = None)

\* C7: once a disclosed payload token of a compact presented token was
\* changed, decoding and verifying returns the error InvalidPresentedProof.
PayloadTamperDetected ==
  pjptTamper.piece = "payloads" =>
    /\ Ran("pdecode") => res["pdecode"].out = "ok"
    /\ Ran("pverify") => res["pverify"].out = "InvalidPresentedProof"

\* C8: when the nonce or the aud of the presentation header inside the compact
\* form of a built presented JWP was changed, decoding succeeds and verifying with the
\* public key used at build returns InvalidPresentedProof.
PresentationBinding ==
  (WellSeeded /\ pjptTamper = [piece |-> "presentation_header", how |-> "changed"]) =>
    /\ Ran("pdecode") => res["pdecode"].out = "ok"
    /\ (Ran("pverify") /\ res["pverify"].key = res["pbuild"].key)
         => (res["pverify"].out = "InvalidPresentedProof" /\ vpresented = None)

PresentationBindingWitness ==
  /\ WellSeeded
  /\ pjptTamper = [piece |-> "presentation_header", how |-> "changed"]
  /\ res["pverify"] = [out |-> "InvalidPresentedProof", key |-> res["pbuild"].key]
  /\ LET d == JwpPresentedDecoder_decode(JwpPresented_encode(Unwrap(presented)))
     IN  IsOk(d) /\ IsOk(JwpPresentedDecoder_verify(d.ok, PublicJwk(res["pbuild"].key)))

\* C9: verifying a built issued JWP, or a presented JWP derived from it, with
\* the public key of another key pair fails with InvalidIssuedProof,
\* respectively InvalidPresentedProof, and returns no verified JWP.
WrongKeyRejected ==
  issuedSrc.by = "build" =>
    /\ (jptTamper = NoTamper /\ Ran("iverify") /\ res["iverify"].key # sk)
         => (res["iverify"].out = "InvalidIssuedProof" /\ vissued = None)
    /\ (pjptTamper = NoTamper /\ Ran("pverify") /\ res["pverify"].key # sk)
         => (res["pverify"].out = "InvalidPresentedProof" /\ vpresented = None)

WrongKeyRejectedWitness ==
  /\ IssuedGenuine
  /\ pjptTamper = NoTamper
  /\ Ran("pverify")
  /\ res["pverify"].key # sk
  /\ res["pverify"].out = "InvalidPresentedProof"
  /\ IsOk(JwpPresentedDecoder_verify(Unwrap(pdec), PublicJwk(sk)))

\* C10: every JwpIssued, JwpIssuedDecoder, JwpPresentedBuilder,
\* JwpPresentedDecoder and JwpPresented has as many payloads as the issuer
\* header has claim names.
SameLength(o) ==
  IsSome(o) =>
    /\ IsSome(Unwrap(o).issuer_protected_header.claims)
    /\ Len(Unwrap(o).payloads) = Len(Unwrap(Unwrap(o).issuer_protected_header.claims))

LengthInvariant ==
  /\ SameLength(issued)
  /\ SameLength(idec)
  /\ SameLength(vissued)
  /\ SameLength(pb)
  /\ SameLength(presented)
  /\ SameLength(pdec)
  /\ SameLength(vpresented)

AllDisclosed(o) ==
  IsSome(o) => \A i \in 1 .. Len(Unwrap(o).payloads) : Unwrap(o).payloads[i].tag = "Disclosed"

\* C11: every JwpIssued that JwpIssuedBuilder::build returned, and every
\* JwpIssued that decode followed by verify returned for a string made from its
\* compact form, has all its payloads tagged Disclosed; a compact issued string
\* with an empty payload token never verifies into a JwpIssued.
IssuedFormInvariant ==
  IssuedGenuine =>
    /\ AllDisclosed(issued)
    /\ AllDisclosed(vissued)
    /\ (jptTamper = [piece |-> "payloads", how |-> "emptied"]) => vissued = None

----------------------------------------------------------------------------
(* Calls made on their own: the input is drawn at the start, one call is made *)

\* the claims vector of a header with n claims
FirstNames(n) == [i \in 1 .. n |-> ClaimNames[i]]

HeaderWithClaims(n) ==
  IssuerProtectedHeader_set_claims(IssuerProtectedHeader_new("BBS"), Some(FirstNames(n)))

\* what can stand as the first piece of a compact string
HeaderChunks ==
  {base64url_encode(to_vec_IssuerProtectedHeader(HeaderWithClaims(n))) : n \in 0 .. MaxClaims}
  \cup {base64url_encode(to_vec_IssuerProtectedHeader(IssuerProtectedHeader_new("BBS"))),
        base64url_encode(JunkBytes),
        << BadChunk >>}

PresentationHeaderChunks ==
  {base64url_encode(to_vec_PresentationProtectedHeader(PresentationProtectedHeader_new("BBS"))),
   << BadChunk >>}

\* what can stand as one payload token
PayloadTokens ==
  {<<>>, base64url_encode_serializable("x"), base64url_encode(JunkBytes), << BadChunk >>}

TokenLists == UNION {[1 .. m -> PayloadTokens] : m \in 0 .. MaxClaims + 1}

PayloadSegments == {join(toks, Tilde) : toks \in TokenLists}

ProofChunks == {base64url_encode(ForgedSignature), << BadChunk >>}

PieceLists ==
  {<<h>> : h \in HeaderChunks}
  \cup {<<h, s>> : h \in HeaderChunks, s \in PayloadSegments}
  \cup {<<h, s, p>> : h \in HeaderChunks, s \in PayloadSegments, p \in ProofChunks}
  \cup {<<h, ph, s, p>> : h \in HeaderChunks, ph \in PresentationHeaderChunks,
                          s \in PayloadSegments, p \in ProofChunks}
  \cup {<<h, ph, s, p, p>> : h \in HeaderChunks, ph \in PresentationHeaderChunks,
                             s \in PayloadSegments, p \in ProofChunks}

CompactStrings == {join(ps, Dot) : ps \in PieceLists}

FlowIdle ==
  /\ jptClaims = <<>>
  /\ issuerAlg = "BBS"
  /\ sk = 1
  /\ issued = None
  /\ issuedSrc = [by |-> "none", altered |-> FALSE]
  /\ jpt = None
  /\ jptTamper = NoTamper
  /\ idec = None
  /\ vissued = None
  /\ pb = None
  /\ pbSeed = "none"
  /\ presented = None
  /\ pjpt = None
  /\ pjptTamper = NoTamper
  /\ pdec = None
  /\ vpresented = None
  /\ res = [op \in Ops |-> NotRun]

\* JwpIssuedDecoder::decode(&str, COMPACT) on any string
CallIssuedDecode ==
  /\ ret = None
  /\ "str" \in DOMAIN arg
  /\ ret' = Some([idecode |-> JwpIssuedDecoder_decode(arg.str)])
  /\ UNCHANGED <<flow, arg>>

\* JwpPresentedDecoder::decode(&str, COMPACT) on any string
CallPresentedDecode ==
  /\ ret = None
  /\ "str" \in DOMAIN arg
  /\ ret' = Some([pdecode |-> JwpPresentedDecoder_decode(arg.str)])
  /\ UNCHANGED <<flow, arg>>

Returned(op) == IsSome(ret) /\ op \in DOMAIN Unwrap(ret)

\* the pieces between the '.' of a string, and the tokens between the '~'
Pieces(s) == splitn(s, Len(s) + 1, Dot)
Tokens(seg) == IF seg = <<>> THEN <<>> ELSE splitn(seg, Len(seg) + 1, Tilde)

\* C12: JwpIssuedDecoder::decode returns InvalidIssuedJwp for every string
\* that has fewer or more than three '.'-separated pieces.
IssuedSplitChecked ==
  (Returned("idecode") /\ Len(Pieces(arg.str)) # 3)
    => Unwrap(ret).idecode = Err("InvalidIssuedJwp")

\* C13: JwpPresentedDecoder::decode returns InvalidPresentedJwp for every
\* string that has fewer or more than four '.'-separated pieces.
PresentedSplitChecked ==
  (Returned("pdecode") /\ Len(Pieces(arg.str)) # 4)
    => Unwrap(ret).pdecode = Err("InvalidPresentedJwp")

\* the piece is the base64url of a header that lists its claims
ListsClaims(piece) ==
  /\ IsOk(base64url_decode(piece))
  /\ IsOk(from_slice_IssuerProtectedHeader(base64url_decode(piece).ok))
  /\ IsSome(from_slice_IssuerProtectedHeader(base64url_decode(piece).ok).ok.claims)

IsPresentationHeader(piece) ==
  /\ IsOk(base64url_decode(piece))
  /\ IsOk(from_slice_PresentationProtectedHeader(base64url_decode(piece).ok))

NumClaims(piece) ==
  Len(Unwrap(from_slice_IssuerProtectedHeader(base64url_decode(piece).ok).ok.claims))

\* m tokens against n claims, an empty segment counting as no token or as one
\* empty token
WrongCount(seg, n) ==
  /\ Len(Tokens(seg)) # n
  /\ ~ (seg = <<>> /\ n = 1)

\* C14: when the payload segment of a three-piece (issued decoder) or
\* four-piece (presented decoder) string holds a number of tokens different
\* from the number of claims the issuer header lists, decode returns
\* InvalidIssuedJwp.
WrongCountRejected ==
  /\ (Returned("idecode") /\ Len(Pieces(arg.str)) = 3
        /\ ListsClaims(Pieces(arg.str)[1])
        /\ WrongCount(Pieces(arg.str)[2], NumClaims(Pieces(arg.str)[1])))
       => Unwrap(ret).idecode = Err("InvalidIssuedJwp")
  /\ (Returned("pdecode") /\ Len(Pieces(arg.str)) = 4
        /\ ListsClaims(Pieces(arg.str)[1])
        /\ IsPresentationHeader(Pieces(arg.str)[2])
        /\ WrongCount(Pieces(arg.str)[3], NumClaims(Pieces(arg.str)[1])))
       => Unwrap(ret).pdecode = Err("InvalidIssuedJwp")

\* C15: both decoders return a decoder value or a CustomError for every
\* string; they never abort the caller.
DecodeTotal ==
  /\ Returned("idecode") => ~ IsPanic(Unwrap(ret).idecode)
  /\ Returned("pdecode") => ~ IsPanic(Unwrap(ret).pdecode)

PayloadTags == {"Disclosed", "Undisclosed"}

PayloadsSet ==
  UNION {[1 .. n -> [value : JsonValues, tag : PayloadTags]] : n \in 0 .. MaxClaims}

\* Payloads::set_undisclosed(index), index counted from 0 as in the code
CallPayloadsSetUndisclosed ==
  /\ ret = None
  /\ "index" \in DOMAIN arg
  /\ ret' = Some([set_undisclosed |->
                    [payloads |-> Payloads_set_undisclosed(arg.payloads, arg.index + 1),
                     returned |-> "()"]])
  /\ UNCHANGED <<flow, arg>>

\* C16: Payloads::set_undisclosed(i) marks position i Undisclosed when
\* i < length, and for i >= length reports IndexOutOfBounds and leaves the
\* payloads unchanged.
SetUndisclosedBounds ==
  Returned("set_undisclosed") =>
    LET r == Unwrap(ret).set_undisclosed
    IN  IF arg.index < Len(arg.payloads)
        THEN r.payloads = [arg.payloads EXCEPT ![arg.index + 1].tag = "Undisclosed"]
        ELSE r.returned = "IndexOutOfBounds" /\ r.payloads = arg.payloads

\* the builder after set_undisclosed was called for the claims at U
RECURSIVE Hide(_, _, _)
Hide(b, U, i) ==
  IF i > Len(b.payloads) THEN b
  ELSE Hide(IF i \in U
            THEN JwpPresentedBuilder_set_undisclosed(b, ClaimNames[i]).ok
            ELSE b, U, i + 1)

\* the builders a holder can hold: seeded by a built JwpIssued, some claims
\* already hidden
PresentedBuilders ==
  {Hide(JwpPresentedBuilder_new(
          JwpIssuedBuilder_build(
            JwpIssuedBuilder_new(IssuerProtectedHeader_new("BBS"), c), Jwk_generate(1)).ok),
        U, 1) :
     c \in {c \in JptClaimsSet : WellFormedJptClaims(c)}, U \in SUBSET (1 .. MaxClaims)}

\* JwpPresentedBuilder::set_undisclosed(claim): on an error the builder is as
\* it was
CallBuilderSetUndisclosed ==
  /\ ret = None
  /\ "claim" \in DOMAIN arg
  /\ LET r == JwpPresentedBuilder_set_undisclosed(arg.builder, arg.claim)
     IN  ret' = Some([builder_set_undisclosed |->
                        [out |-> Outcome(r),
                         builder |-> IF IsOk(r) THEN r.ok ELSE arg.builder]])
  /\ UNCHANGED <<flow, arg>>

InClaims(b, claim) ==
  /\ IsSome(b.issuer_protected_header.claims)
  /\ \E i \in 1 .. Len(Unwrap(b.issuer_protected_header.claims)) :
       Unwrap(b.issuer_protected_header.claims)[i] = claim

\* C17: JwpPresentedBuilder::set_undisclosed(name) returns
\* SelectiveDisclosureError for a name that is not in the issuer header's
\* claims and then leaves the builder's payloads as they were; for a name that
\* is present it sets the tag of the payload at that claim's index to
\* Undisclosed and changes nothing else.
SetUndisclosedByName ==
  Returned("builder_set_undisclosed") =>
    LET r == Unwrap(ret).builder_set_undisclosed
        b == arg.builder
    IN  IF InClaims(b, arg.claim)
        THEN /\ r.out = "ok"
             /\ \E i \in 1 .. Len(b.payloads) :
                  /\ Unwrap(b.issuer_protected_header.claims)[i] = arg.claim
                  /\ r.builder = [b EXCEPT !.payloads[i].tag = "Undisclosed"]
        ELSE /\ r.out = "SelectiveDisclosureError"
             /\ r.builder.payloads = b.payloads

SetUndisclosedByNameWitness ==
  /\ Returned("builder_set_undisclosed")
  /\ ~ InClaims(arg.builder, arg.claim)
  /\ Len(arg.builder.payloads) >= 2
  /\ Unwrap(ret).builder_set_undisclosed.out = "SelectiveDisclosureError"

\* C18: for an algorithm outside the BBS family, issued build, issued verify,
\* presented build and presented verify return an error value: they neither
\* succeed nor abort.
ReservedNotImplemented ==
  /\ (Ran("ibuild") /\ issuerAlg \notin BbsAlgs)
       => res["ibuild"].out \notin {"ok", "panic"}
  /\ (Ran("iverify") /\ Unwrap(idec).issuer_protected_header.alg \notin BbsAlgs)
       => res["iverify"].out \notin {"ok", "panic"}
  /\ (Ran("pbuild") /\ IsSome(Unwrap(pb).presentation_protected_header)
        /\ Unwrap(Unwrap(pb).presentation_protected_header).alg \notin BbsAlgs)
       => res["pbuild"].out \notin {"ok", "panic"}
  /\ (Ran("pverify") /\ Unwrap(pdec).presentation_protected_header.alg \notin BbsAlgs)
       => res["pverify"].out \notin {"ok", "panic"}

EllipticCurveTypes == {"BLS12381G2", "P-256", "Ed25519"}

\* the keys signing can be asked to use: Octet-Key-Pairs on any curve
SigningKeys ==
  {Jwk_from_key_params(JwkOctetKeyPairParameters_new(crv, 1, d)) :
     crv \in EllipticCurveTypes, d \in {None, Some(1)}}

\* BBSplusAlgorithm::generate_issuer_proof(alg, payloads, key, issuer_header)
CallGenerateIssuerProof ==
  /\ ret = None
  /\ "signer" \in DOMAIN arg
  /\ ret' = Some([sign |->
                    generate_issuer_proof(arg.alg, Payloads_new_from_values(<<"x">>),
                                          arg.signer,
                                          to_vec_IssuerProtectedHeader(HeaderWithClaims(1)))])
  /\ UNCHANGED <<flow, arg>>

\* C19: signing with BBS or BBS-SHAKE256 and a key whose curve is not
\* BLS12381G2 returns ProofGenerationError("key is not compatible") and no
\* signature; the compatibility check is true exactly for (BBS, BLS12381G2) and
\* (BBS-SHAKE256, BLS12381G2), for issuance and presentation algorithms alike.
CompatibilityGate ==
  Returned("sign") =>
    LET crv == arg.signer.key_params.crv
        compatible == arg.alg \in {"BBS", "BBS-SHAKE256"} /\ crv = "BLS12381G2"
    IN  /\ (arg.alg \in {"BBS", "BBS-SHAKE256"} /\ crv # "BLS12381G2")
             => Unwrap(ret).sign = Err(KeyIsNotCompatible)
        /\ check_alg_curve_compatibility(arg.alg, crv) <=> compatible
        /\ check_presentation_alg_curve_compatibility(arg.alg, crv) <=> compatible

CompatibilityGateWitness ==
  /\ Returned("sign")
  /\ arg.alg = "BBS"
  /\ arg.signer.key_params.crv = "P-256"
  /\ is_private(arg.signer)
  /\ Unwrap(ret).sign = Err(KeyIsNotCompatible)

KeyOpsLists == UNION {[1 .. n -> KeyOps] : n \in 0 .. MaxKeyOps}

\* the keys to_public can be called on: both variants, private or public
Jwks ==
  {[kid |-> kid, pk_use |-> use, key_ops |-> ops, alg |-> alg,
    x5u |-> x5, x5c |-> x5, x5t |-> x5, key_params |-> params] :
     kid \in {None, Some("kid1")}, use \in {None, Some("sig")},
     ops \in {None} \cup {Some(l) : l \in KeyOpsLists},
     alg \in {None, Some("BBS")}, x5 \in {None, Some("cert")},
     params \in {JwkOctetKeyPairParameters_new("BLS12381G2", 1, d) : d \in {None, Some(1)}}
                \cup {JwkEllipticCurveKeyParameters_new("P-256", 1, 2, d) :
                        d \in {None, Some(1)}}}

\* Jwk::to_public()
CallToPublic ==
  /\ ret = None
  /\ "jwk" \in DOMAIN arg
  /\ ret' = Some([to_public |-> Jwk_to_public(arg.jwk)])
  /\ UNCHANGED <<flow, arg>>

\* C20: Jwk::to_public returns the key without d, with every key_ops entry
\* replaced in order by its inverse and every other field, kty included, as in
\* the original, for the Octet-Key-Pair and the Elliptic-Curve variant.
ToPublicFrame ==
  Returned("to_public") =>
    LET jwk == arg.jwk
        r == Unwrap(ret).to_public
    IN  /\ IsSome(r)
        /\ Unwrap(r) =
             [jwk EXCEPT
                !.key_params.d = None,
                !.key_ops = IF IsSome(jwk.key_ops)
                            THEN Some([i \in 1 .. Len(Unwrap(jwk.key_ops)) |->
                                         KeyOps_inverse(Unwrap(jwk.key_ops)[i])])
                            ELSE None]

\* JSON values with structure, by number of nodes
ObjectKeys == {"a", "b", "iss"}

KeyLists(n) == {ks \in [1 .. n -> ObjectKeys] : \A i, j \in 1 .. n : ks[i] = ks[j] => i = j}

RECURSIVE JsonValuesOfSize(_)
RECURSIVE JsonListsOfSize(_)
JsonValuesOfSize(n) ==
  LET lists == JsonListsOfSize(n - 1)
  IN  (IF n = 1 THEN {JsonLeaf(v) : v \in JsonValues} ELSE {})
      \cup {JsonArray(l) : l \in lists}
      \cup UNION {{JsonObject([i \in 1 .. Len(l) |-> [k |-> ks[i], v |-> l[i]]]) :
                     ks \in KeyLists(Len(l))} : l \in lists}

JsonListsOfSize(n) ==
  IF n = 0 THEN {<<>>}
  ELSE UNION {{<<t>> \o l : t \in JsonValuesOfSize(k), l \in JsonListsOfSize(n - k)} :
                k \in 1 .. n}

StructuredValues == UNION {JsonValuesOfSize(n) : n \in 1 .. MaxNodes}

OptionalClaimNames == {None, Some("vc")}

\* JptClaims::new().set_claim(claim, value, flattened)
CallSetClaim ==
  /\ ret = None
  /\ "flattened" \in DOMAIN arg
  /\ ret' = Some([set_claim |->
                    JptClaims_set_claim(JptClaims_new, arg.name, arg.value, arg.flattened)])
  /\ UNCHANGED <<flow, arg>>

\* the leaves of a value in depth-first order, each with its dotted path
RECURSIVE Leaves(_, _, _)
Leaves(v, path, i) ==
  IF is_object(v)
  THEN IF i > Len(v.obj) THEN <<>>
       ELSE Leaves(v.obj[i].v, IF path = "" THEN v.obj[i].k ELSE path \o "." \o v.obj[i].k, 1)
            \o Leaves(v, path, i + 1)
  ELSE IF is_array(v)
  THEN IF i > Len(v.arr) THEN <<>>
       ELSE Leaves(v.arr[i], path \o "[" \o ToString(i - 1) \o "]", 1)
            \o Leaves(v, path, i + 1)
  ELSE <<[name |-> path, value |-> v]>>

\* C22: after set_claim(name, value, flattened = true) with an object or an
\* array as value, the claims are the dotted paths of the leaves of the value
\* in depth-first order (keys joined by '.', array elements as '[i]'), every
\* payload is a leaf value, and empty arrays and objects give no claim.
FlattenedClaims ==
  (Returned("set_claim") /\ arg.flattened /\ (is_object(arg.value) \/ is_array(arg.value))) =>
    LET r == Unwrap(ret).set_claim
        leaves == Leaves(arg.value, unwrap_or(arg.name, ""), 1)
    IN  /\ IsOk(r)
        /\ LET cp == JptClaims_get_claims_and_payloads(r.ok)
           IN  /\ cp.claims = [i \in 1 .. Len(leaves) |-> leaves[i].name]
               /\ get_values(cp.payloads) = [i \in 1 .. Len(leaves) |-> leaves[i].value]
               /\ \A i \in 1 .. Len(cp.payloads) :
                    ~ is_object(cp.payloads[i].value) /\ ~ is_array(cp.payloads[i].value)

\* the claim sets get_claims_and_payloads is called on: registered claims
\* set or not, custom claims as set_claim leaves them
RegisteredSettings ==
  {JptClaims_new,
   [JptClaims_new EXCEPT !.iss = Some(JsonLeaf("x"))],
   [JptClaims_new EXCEPT !.iss = Some(JsonLeaf("x")), !.sub = Some(JsonLeaf("x")),
                         !.exp = Some(JsonLeaf("x")), !.nbf = Some(JsonLeaf("x")),
                         !.iat = Some(JsonLeaf("x")), !.jti = Some(JsonLeaf("x"))]}

JptClaimsValues ==
  {JptClaims_set_claim(c, claim, v, f).ok :
     c \in RegisteredSettings, claim \in OptionalClaimNames, v \in StructuredValues,
     f \in BOOLEAN}

\* get_claims_and_payloads() and from_claims_and_payloads on what it returned
CallClaimsRoundTrip ==
  /\ ret = None
  /\ "jpt_claims" \in DOMAIN arg
  /\ LET cp == JptClaims_get_claims_and_payloads(arg.jpt_claims)
     IN  ret' = Some([get_claims_and_payloads |-> cp,
                      from_claims_and_payloads |->
                        JptClaims_from_claims_and_payloads(cp.claims, cp.payloads)])
  /\ UNCHANGED <<flow, arg>>

\* C21: get_claims_and_payloads yields Claims and Payloads of equal length,
\* and from_claims_and_payloads over them returns the original claim set.
ClaimsPayloadsBijection ==
  Returned("from_claims_and_payloads") =>
    LET r == Unwrap(ret)
    IN  /\ Len(r.get_claims_and_payloads.claims) = Len(r.get_claims_and_payloads.payloads)
        /\ r.from_claims_and_payloads = Ok(arg.jpt_claims)

\* C23: when the header piece of a compact issued string decodes from
\* base64url but does not parse as an IssuerProtectedHeader,
\* JwpIssuedDecoder::decode returns InvalidIssuedJwp.
HeaderParseFails ==
  (/\ Returned("idecode")
   /\ Len(Pieces(arg.str)) >= 3
   /\ IsOk(base64url_decode(Pieces(arg.str)[1]))
   /\ Failed(from_slice_IssuerProtectedHeader(base64url_decode(Pieces(arg.str)[1]).ok)))
  => Unwrap(ret).idecode = Err("InvalidIssuedJwp")

\* the issued builders that exist: made by new, or deserialized with a field
\* missing (the struct derives Deserialize and both fields are Options)
IssuedBuilders ==
  {[issuer_protected_header |-> h, payloads |-> p] :
     h \in {None} \cup {Some(IssuerProtectedHeader_set_claims(
                               IssuerProtectedHeader_new(alg), Some(FirstNames(1)))) :
                          alg \in ProofAlgorithms},
     p \in {None, Some(Payloads_new_from_values(<<"x">>))}}

\* the same builders before and after set_presentation_protected_header
PresentedBuildersAtBuild ==
  PresentedBuilders
  \cup {JwpPresentedBuilder_set_presentation_protected_header(b, h) :
          b \in PresentedBuilders, h \in PresentationHeaders}

\* JwpIssuedBuilder::build(&jwk) and build_with_proof(proof)
CallIssuedBuilderBuild ==
  /\ ret = None
  /\ "ibuilder" \in DOMAIN arg
  /\ ret' = Some([issued_build |->
                    [build |-> JwpIssuedBuilder_build(arg.ibuilder, arg.jwk),
                     build_with_proof |->
                       JwpIssuedBuilder_build_with_proof(arg.ibuilder, arg.proof)]])
  /\ UNCHANGED <<flow, arg>>

\* JwpPresentedBuilder::build(&jwk) and build_with_proof(proof)
CallPresentedBuilderBuild ==
  /\ ret = None
  /\ "pbuilder" \in DOMAIN arg
  /\ ret' = Some([presented_build |->
                    [build |-> JwpPresentedBuilder_build(arg.pbuilder, arg.jwk),
                     build_with_proof |->
                       JwpPresentedBuilder_build_with_proof(arg.pbuilder, arg.proof)]])
  /\ UNCHANGED <<flow, arg>>

\* C24: JwpPresentedBuilder::build and build_with_proof without a
\* presentation header return IncompleteJwpBuild(NoPresentationHeader) and no
\* JwpPresented; JwpIssuedBuilder::build returns
\* IncompleteJwpBuild(NoIssuerHeader) when the header is missing and
\* IncompleteJwpBuild(NoClaimsAndPayloads) when only the payloads are missing,
\* whatever the key and the algorithm.
BuilderCompleteness ==
  /\ (Returned("presented_build") /\ ~ IsSome(arg.pbuilder.presentation_protected_header)) =>
       /\ Unwrap(ret).presented_build.build = Err("NoPresentationHeader")
       /\ Unwrap(ret).presented_build.build_with_proof = Err("NoPresentationHeader")
  /\ Returned("issued_build") =>
       /\ ~ IsSome(arg.ibuilder.issuer_protected_header) =>
            Unwrap(ret).issued_build.build = Err("NoIssuerHeader")
       /\ (IsSome(arg.ibuilder.issuer_protected_header) /\ ~ IsSome(arg.ibuilder.payloads)) =>
            Unwrap(ret).issued_build.build = Err("NoClaimsAndPayloads")

\* jpa::algs: a variant is named as in the enum, a token is what is written
\* in a header
ProofAlgorithmVariants ==
  {"BBS", "BBS_SHAKE256", "SU_ES256", "SU_ES384", "SU_ES512", "MAC_H256",
   "MAC_H384", "MAC_H512", "MAC_K25519", "MAC_K448", "MAC_H256K"}

PresentationProofAlgorithmVariants == ProofAlgorithmVariants

\* #[serde(rename = ..)] of ProofAlgorithm
ProofAlgorithm_serde_name(v) ==
  CASE v = "BBS" -> "BBS"
    [] v = "BBS_SHAKE256" -> "BBS-SHAKE256"
    [] v = "SU_ES256" -> "SU-ES256"
    [] v = "SU_ES384" -> "SU-ES384"
    [] v = "SU_ES512" -> "SU-ES512"
    [] v = "MAC_H256" -> "MAC-H256"
    [] v = "MAC_H384" -> "MAC-H384"
    [] v = "MAC_H512" -> "MAC-H512"
    [] v = "MAC_K25519" -> "MAC-K25519"
    [] v = "MAC_K448" -> "MAC-K448"
    [] v = "MAC_H256K" -> "MAC-H256K"

\* impl Into<PresentationProofAlgorithm> for ProofAlgorithm
ProofAlgorithm_into(v) ==
  CASE v = "BBS" -> "BBS"
    [] v = "BBS_SHAKE256" -> "BBS_SHAKE256"
    [] v = "SU_ES256" -> "SU_ES256"
    [] v = "SU_ES384" -> "SU_ES384"
    [] v = "SU_ES512" -> "SU_ES512"
    [] v = "MAC_H256" -> "MAC_H256"
    [] v = "MAC_H384" -> "MAC_H384"
    [] v = "MAC_H512" -> "MAC_H512"
    [] v = "MAC_K25519" -> "MAC_K25519"
    [] v = "MAC_K448" -> "MAC_K448"
    [] v = "MAC_H256K" -> "MAC_H256K"

\* impl fmt::Display for ProofAlgorithm
ProofAlgorithm_to_string(v) ==
  CASE v = "BBS" -> "BBS"
    [] v = "BBS_SHAKE256" -> "BBS-SHAKE256"
    [] v = "SU_ES256" -> "SU-ES256"
    [] v = "SU_ES384" -> "SU-ES384"
    [] v = "SU_ES512" -> "SU-ES512"
    [] v = "MAC_H256" -> "MAC-H256"
    [] v = "MAC_H384" -> "MAC-H384"
    [] v = "MAC_H512" -> "MAC-H512"
    [] v = "MAC_K25519" -> "MAC-K25519"
    [] v = "MAC_K448" -> "MAC-K448"
    [] v = "MAC_H256K" -> "MAC-H256K"

\* impl FromStr for ProofAlgorithm
ProofAlgorithm_from_str(s) ==
  CASE s = "BBS" -> Ok("BBS")
    [] s = "BBS-SHAKE256" -> Ok("BBS_SHAKE256")
    [] s = "SU-ES256" -> Ok("SU_ES256")
    [] s = "SU-ES384" -> Ok("SU_ES384")
    [] s = "MAC-H256" -> Ok("MAC_H256")
    [] s = "MAC-H384" -> Ok("MAC_H384")
    [] s = "MAC-H512" -> Ok("MAC_H512")
    [] s = "MAC-K25519" -> Ok("MAC_K25519")
    [] s = "MAC-K448" -> Ok("MAC_K448")
    [] s = "MAC-H256K" -> Ok("MAC_H256K")
    [] OTHER -> Err("Invalid proof algorithm")

\* #[serde(rename = ..)] of PresentationProofAlgorithm
PresentationProofAlgorithm_serde_name(v) ==
  CASE v = "BBS" -> "BBS"
    [] v = "BBS_SHAKE256" -> "BBS-SHAKE256"
    [] v = "SU_ES256" -> "SU-ES256"
    [] v = "SU_ES384" -> "SU-ES384"
    [] v = "SU_ES512" -> "SU-ES512"
    [] v = "MAC_H256" -> "MAC-H256"
    [] v = "MAC_H384" -> "MAC-H384"
    [] v = "MAC_H512" -> "MAC-H512"
    [] v = "MAC_K25519" -> "MAC-K25519"
    [] v = "MAC_K448" -> "MAC-K448"
    [] v = "MAC_H256K" -> "MAC-H256K"

\* impl fmt::Display for PresentationProofAlgorithm
PresentationProofAlgorithm_to_string(v) ==
  CASE v = "BBS" -> "BBS"
    [] v = "BBS_SHAKE256" -> "BBS-SHAKE256"
    [] v = "SU_ES256" -> "SU-ES256"
    [] v = "SU_ES384" -> "SU-ES384"
    [] v = "SU_ES512" -> "SU-ES512"
    [] v = "MAC_H256" -> "MAC-H256"
    [] v = "MAC_H384" -> "MAC-H384"
    [] v = "MAC_H512" -> "MAC-H512"
    [] v = "MAC_K25519" -> "MAC-K25519"
    [] v = "MAC_K448" -> "MAC-K448"
    [] v = "MAC_H256K" -> "MAC-H256K"

\* impl FromStr for PresentationProofAlgorithm
PresentationProofAlgorithm_from_str(s) ==
  CASE s = "BBS-PROOF" -> Ok("BBS")
    [] s = "BBS-SHAKE256-PROOF" -> Ok("BBS_SHAKE256")
    [] s = "SU-ES256" -> Ok("SU_ES256")
    [] s = "SU-ES384" -> Ok("SU_ES384")
    [] s = "MAC-H256" -> Ok("MAC_H256")
    [] s = "MAC-H384" -> Ok("MAC_H384")
    [] s = "MAC-H512" -> Ok("MAC_H512")
    [] s = "MAC-K25519" -> Ok("MAC_K25519")
    [] s = "MAC-K448" -> Ok("MAC_K448")
    [] s = "MAC-H256K" -> Ok("MAC_H256K")
    [] OTHER -> Err("Invalid proof algorithm")

\* to_string() of a variant, from_str of the token, and for an issuance
\* algorithm the token of its presentation counterpart
CallAlgorithmToken ==
  /\ ret = None
  /\ "variant" \in DOMAIN arg
  /\ ret' = Some([algorithm_token |->
                    IF arg.enum = "ProofAlgorithm"
                    THEN [display |-> ProofAlgorithm_to_string(arg.variant),
                          serde |-> ProofAlgorithm_serde_name(arg.variant),
                          parsed |-> ProofAlgorithm_from_str(
                                       ProofAlgorithm_to_string(arg.variant)),
                          converted |-> PresentationProofAlgorithm_to_string(
                                          ProofAlgorithm_into(arg.variant))]
                    ELSE [display |-> PresentationProofAlgorithm_to_string(arg.variant),
                          serde |-> PresentationProofAlgorithm_serde_name(arg.variant),
                          parsed |-> PresentationProofAlgorithm_from_str(
                                       PresentationProofAlgorithm_to_string(arg.variant)),
                          converted |-> PresentationProofAlgorithm_to_string(arg.variant)]])
  /\ UNCHANGED <<flow, arg>>

\* C25: for every variant of ProofAlgorithm and of
\* PresentationProofAlgorithm the Display form equals the serde name, from_str
\* of it returns the same variant, and the issuance-to-presentation
\* conversion keeps the token.
AlgorithmTokenRoundTrip ==
  Returned("algorithm_token") =>
    LET r == Unwrap(ret).algorithm_token
    IN  /\ r.display = r.serde
        /\ r.parsed = Ok(arg.variant)
        /\ r.converted = r.display

PayloadType == {"Disclosed", "Undisclosed", "ProofMethods"}

TaggedPayloads ==
  UNION {[1 .. n -> [value : JsonValues, tag : PayloadType]] : n \in 0 .. MaxClaims + 1}

\* positions as the code counts them, from 0
ZeroBased(indexes) == [k \in 1 .. Len(indexes) |-> indexes[k] - 1]

\* get_disclosed_indexes(), get_undisclosed_indexes(), get_disclosed_payloads()
CallPayloadIndexes ==
  /\ ret = None
  /\ "tagged" \in DOMAIN arg
  /\ ret' = Some([indexes |->
                    [disclosed |-> ZeroBased(get_disclosed_indexes(arg.tagged)),
                     undisclosed |-> ZeroBased(get_undisclosed_indexes(arg.tagged)),
                     disclosed_payloads |-> get_disclosed_payloads(arg.tagged)]])
  /\ UNCHANGED <<flow, arg>>

StrictlyAscending(s) == \A j, k \in 1 .. Len(s) : j < k => s[j] < s[k]

Elements(s) == {s[k] : k \in 1 .. Len(s)}

\* C26: get_disclosed_indexes and get_undisclosed_indexes are strictly
\* ascending and disjoint, they partition 0..n-1 when no entry is tagged
\* ProofMethods, and get_disclosed_payloads returns exactly the entries at the
\* disclosed indexes in the same order.
PayloadIndexBookkeeping ==
  Returned("indexes") =>
    LET r == Unwrap(ret).indexes
        n == Len(arg.tagged)
    IN  /\ StrictlyAscending(r.disclosed) /\ StrictlyAscending(r.undisclosed)
        /\ Elements(r.disclosed) \cap Elements(r.undisclosed) = {}
        /\ Elements(r.disclosed) \cup Elements(r.undisclosed) \subseteq 0 .. n - 1
        /\ (\A i \in 1 .. n : arg.tagged[i].tag # "ProofMethods") =>
             Elements(r.disclosed) \cup Elements(r.undisclosed) = 0 .. n - 1
        /\ \A i \in 1 .. n : arg.tagged[i].tag = "Disclosed" <=> i - 1 \in Elements(r.disclosed)
        /\ r.disclosed_payloads =
             [k \in 1 .. Len(r.disclosed) |-> arg.tagged[r.disclosed[k] + 1]]

\* the indexes of payloads of which two are disclosed around a hidden one
PayloadIndexBookkeepingWitness ==
  /\ Returned("indexes")
  /\ Len(arg.tagged) = 3
  /\ Unwrap(ret).indexes.disclosed = <<0, 2>>
  /\ Unwrap(ret).indexes.undisclosed = <<1>>
  /\ Len(Unwrap(ret).indexes.disclosed_payloads) = 2

Opt(v) == {None, Some(v)}

FullIssuerProtectedHeaders ==
  [typ : Opt("JPT"), alg : ProofAlgorithms, kid : Opt("kid1"), cid : Opt("cid1"),
   claims : Opt("claims"), crit : Opt("crit"), iss : Opt("iss1"), proof_key : Opt("jwk")]

FullPresentationProtectedHeaders ==
  [alg : PresentationProofAlgorithms, kid : Opt("kid1"), aud : Opt("aud1"),
   nonce : Opt("n1"), typ : Opt("JPT"), crit : Opt("crit"), iss : Opt("iss1"),
   presentation_key : Opt("jwk")]

\* the octets of a header at the three places they are made: build, encode
\* (read back from the piece of the compact string) and verify after decode
CallHeaderOctets ==
  /\ ret = None
  /\ "header" \in DOMAIN arg
  /\ LET issuer == "proof_key" \in DOMAIN arg.header
         at_build == IF issuer THEN Serialize_IssuerProtectedHeader(arg.header)
                     ELSE Serialize_PresentationProtectedHeader(arg.header)
         piece == base64url_encode(to_vec_members(at_build))
         members == from_slice_members(base64url_decode(piece).ok).ok
         decoded == IF issuer THEN Deserialize_IssuerProtectedHeader(members).ok
                    ELSE Deserialize_PresentationProtectedHeader(members).ok
     IN  ret' = Some([header_octets |->
                        [build |-> to_vec_members(at_build),
                         compact |-> piece,
                         verify |-> to_vec_members(
                                      IF issuer THEN Serialize_IssuerProtectedHeader(decoded)
                                      ELSE Serialize_PresentationProtectedHeader(decoded))]])
  /\ UNCHANGED <<flow, arg>>

\* the fields of a header that are written, in the order the claim gives
WrittenFields(h, order) ==
  SelectSeq(order, LAMBDA f : f = "alg" \/ IsSome(h[f]))

\* C27: the octets of an issuer or presentation header serialized at build
\* time have the fields in the order typ, alg, kid, cid, claims, crit, iss,
\* proof_key, respectively alg, kid, aud, nonce, typ, crit, iss,
\* presentation_key, absent fields left out, and are the octets in the compact
\* string and the octets recomputed by verify after decoding it.
HeaderOctetsAgreement ==
  Returned("header_octets") =>
    LET r == Unwrap(ret).header_octets
        order == IF "proof_key" \in DOMAIN arg.header
                 THEN <<"typ", "alg", "kid", "cid", "claims", "crit", "iss", "proof_key">>
                 ELSE <<"alg", "kid", "aud", "nonce", "typ", "crit", "iss", "presentation_key">>
    IN  /\ [i \in 1 .. Len(r.build.members) |-> r.build.members[i].name]
             = WrittenFields(arg.header, order)
        /\ base64url_decode(r.compact) = Ok(r.build)
        /\ r.verify = r.build

\* an issuer header with typ, kid and claims but no cid went through
HeaderOctetsAgreementWitness ==
  /\ Returned("header_octets")
  /\ "proof_key" \in DOMAIN arg.header
  /\ IsSome(arg.header.typ) /\ IsSome(arg.header.kid) /\ IsSome(arg.header.claims)
  /\ ~ IsSome(arg.header.cid)
  /\ Len(Unwrap(ret).header_octets.verify.members) >= 4

----------------------------------------------------------------------------
(* One JwpPresentedBuilder and the calls made on it, in any order *)

\* the JwpIssued a builder is seeded with
SeedJwps ==
  {JwpIssuedBuilder_build(
     JwpIssuedBuilder_new(IssuerProtectedHeader_new(alg), c), Jwk_generate(1)).ok :
     alg \in BbsAlgs, c \in {c \in JptClaimsSet : WellFormedJptClaims(c)}}

Builder == Unwrap(ret).builder
Built == Unwrap(ret).built

BuilderInit ==
  /\ FlowIdle
  /\ arg \in {[seed |-> j] : j \in SeedJwps}
  /\ ret = Some([builder |-> JwpPresentedBuilder_new(arg.seed), built |-> None])

BuilderSetPresentationProtectedHeader ==
  /\ "seed" \in DOMAIN arg
  /\ \E h \in PresentationHeaders :
       ret' = Some([Unwrap(ret) EXCEPT
                      !.builder = JwpPresentedBuilder_set_presentation_protected_header(@, h)])
  /\ UNCHANGED <<flow, arg>>

\* set_undisclosed(claim); an error leaves the builder as it is
BuilderSetUndisclosed ==
  /\ "seed" \in DOMAIN arg
  /\ \E i \in 1 .. MaxClaims + 1 :
       LET r == JwpPresentedBuilder_set_undisclosed(Builder, ClaimNames[i])
       IN  ret' = Some([Unwrap(ret) EXCEPT !.builder = IF IsOk(r) THEN r.ok ELSE @])
  /\ UNCHANGED <<flow, arg>>

\* build(&jwk) takes &self: the builder stays, the result is kept
BuilderBuild ==
  /\ "seed" \in DOMAIN arg
  /\ \E k \in Keys :
       ret' = Some([Unwrap(ret) EXCEPT
                      !.built = Some(JwpPresentedBuilder_build(Builder, PublicJwk(k)))])
  /\ UNCHANGED <<flow, arg>>

BuilderBuildWithProof ==
  /\ "seed" \in DOMAIN arg
  /\ ret' = Some([Unwrap(ret) EXCEPT
                    !.built = Some(JwpPresentedBuilder_build_with_proof(Builder, ForgedProof))])
  /\ UNCHANGED <<flow, arg>>

BuilderNext ==
  \/ BuilderSetPresentationProtectedHeader
  \/ BuilderSetUndisclosed
  \/ BuilderBuild
  \/ BuilderBuildWithProof

BuilderSpec == BuilderInit /\ [][BuilderNext]_vars

HasBuilt == "seed" \in DOMAIN arg /\ IsSome(Built) /\ IsOk(Unwrap(Built))

\* C28: the issuer header of a built presented JWP, its claims vector
\* included, is the issuer header of the seeding issued JWP, whatever claims
\* were marked undisclosed.
NamesStayListed ==
  HasBuilt =>
    /\ Unwrap(Built).ok.issuer_protected_header.claims = arg.seed.issuer_protected_header.claims
    /\ Unwrap(Built).ok.issuer_protected_header = arg.seed.issuer_protected_header

\* a presented JWP was built by build(&jwk) with a claim hidden
NamesStayListedWitness ==
  /\ HasBuilt
  /\ "pok" \in DOMAIN Unwrap(Built).ok.proof
  /\ Unwrap(Built).ok.proof # ForgedProof
  /\ \E i \in 1 .. Len(Unwrap(Built).ok.payloads) :
       Unwrap(Built).ok.payloads[i].tag = "Undisclosed"

SeedKept(b) ==
  /\ Len(b.payloads) = Len(arg.seed.payloads)
  /\ get_values(b.payloads) = get_values(arg.seed.payloads)
  /\ b.issuer_proof = arg.seed.proof

StaysHidden ==
  \A i \in 1 .. Len(Builder.payloads) :
    Builder.payloads[i].tag = "Undisclosed" =>
      (i <= Len(Builder'.payloads) /\ Builder'.payloads[i].tag = "Undisclosed")

\* C29: across every sequence of set_presentation_protected_header,
\* set_undisclosed, build and build_with_proof calls on one builder, a position
\* tagged Undisclosed is never tagged Disclosed again, and the payload values,
\* the payload count and the issuer proof stay those of the seeding JwpIssued.
DisclosureMonotone ==
  [][("seed" \in DOMAIN arg) => (StaysHidden /\ SeedKept(Builder) /\ SeedKept(Builder'))]_vars

\* a claim was hidden, a build was made, and set_undisclosed could be called again
DisclosureMonotoneWitness ==
  /\ HasBuilt
  /\ \E i \in 1 .. Len(Builder.payloads) : Builder.payloads[i].tag = "Undisclosed"
  /\ \E i \in 1 .. Len(Builder.payloads) : Builder.payloads[i].tag = "Disclosed"

----------------------------------------------------------------------------
(* Two presentations that differ only in what they hide *)

\* a builder seeded by the JwpIssued built over c, the claims at U hidden
HidingBuilder(c, U, h) ==
  JwpPresentedBuilder_set_presentation_protected_header(
    Hide(JwpPresentedBuilder_new(
           JwpIssuedBuilder_build(
             JwpIssuedBuilder_new(IssuerProtectedHeader_new("BBS"), c), Jwk_generate(1)).ok),
         U, 1),
    h)

\* pairs of builders with the same headers, the same undisclosed set and the
\* same values at the disclosed positions, and different hidden values
ClaimsPairs ==
  {cc \in {c \in JptClaimsSet : WellFormedJptClaims(c)}
          \X {c \in JptClaimsSet : WellFormedJptClaims(c)} :
     Len(cc[1]) = Len(cc[2]) /\ cc[1] # cc[2]}

\* the sets of positions that hide every difference of a pair
HidingSets(cc) ==
  {U \in SUBSET (1 .. MaxClaims) : \A i \in 1 .. Len(cc[1]) : cc[1][i] # cc[2][i] => i \in U}

BuilderPairs ==
  UNION {{[first |-> HidingBuilder(cc[1], U, h), second |-> HidingBuilder(cc[2], U, h)] :
            U \in HidingSets(cc), h \in {ph \in PresentationHeaders : ph.alg \in BbsAlgs}} :
           cc \in ClaimsPairs}

\* build(&jwk) and encode(COMPACT) on both builders
CallEncodePair ==
  /\ ret = None
  /\ "second" \in DOMAIN arg
  /\ LET p1 == JwpPresentedBuilder_build(arg.first, PublicJwk(1))
         p2 == JwpPresentedBuilder_build(arg.second, PublicJwk(1))
     IN  ret' = Some([encode_pair |->
                        [first |-> IF IsOk(p1) THEN Ok(JwpPresented_encode(p1.ok)) ELSE p1,
                         second |-> IF IsOk(p2) THEN Ok(JwpPresented_encode(p2.ok)) ELSE p2]])
  /\ UNCHANGED <<flow, arg>>

\* C30: two presentation builders that agree on the issuer header, the
\* presentation header, the undisclosed set and the values at the Disclosed
\* positions and differ in the values at Undisclosed positions give compact
\* presented strings with identical issuer-header, presentation-header and
\* payload pieces.
HiddenValuesDoNotShow ==
  Returned("encode_pair") =>
    LET r == Unwrap(ret).encode_pair
    IN  /\ IsOk(r.first) /\ IsOk(r.second)
        /\ Len(Pieces(r.first.ok)) = 4 /\ Len(Pieces(r.second.ok)) = 4
        /\ \A i \in 1 .. 3 : Pieces(r.first.ok)[i] = Pieces(r.second.ok)[i]

\* two builders that hide different values next to a disclosed one were built
\* and encoded
HiddenValuesDoNotShowWitness ==
  /\ Returned("encode_pair")
  /\ get_values(arg.first.payloads) # get_values(arg.second.payloads)
  /\ \E i \in 1 .. Len(arg.first.payloads) : arg.first.payloads[i].tag = "Disclosed"
  /\ IsOk(Unwrap(ret).encode_pair.first)
  /\ Pieces(Unwrap(ret).encode_pair.first.ok)[3] # <<>>

UnitInit ==
  /\ FlowIdle
  /\ ret = None
  /\ \/ arg \in {[str |-> s] : s \in CompactStrings}
     \/ arg \in [payloads : PayloadsSet, index : 0 .. MaxClaims + 1]
     \/ arg \in [builder : PresentedBuilders,
                 claim : {ClaimNames[i] : i \in 1 .. MaxClaims + 1}]
     \/ arg \in [alg : ProofAlgorithms, signer : SigningKeys]
     \/ arg \in [jwk : Jwks]
     \/ arg \in [name : OptionalClaimNames, value : StructuredValues, flattened : BOOLEAN]
     \/ arg \in [jpt_claims : JptClaimsValues]
     \/ arg \in BuilderPairs
     \/ arg \in [header : FullIssuerProtectedHeaders \cup FullPresentationProtectedHeaders]
     \/ arg \in [tagged : TaggedPayloads]
     \/ arg \in [enum : {"ProofAlgorithm", "PresentationProofAlgorithm"}, variant : ProofAlgorithmVariants]
     \/ arg \in [ibuilder : IssuedBuilders, jwk : SigningKeys, proof : {ForgedSignature}]
     \/ arg \in [pbuilder : PresentedBuildersAtBuild, jwk : SigningKeys, proof : {ForgedProof}]

UnitNext ==
  \/ CallIssuedDecode
  \/ CallPresentedDecode
  \/ CallPayloadsSetUndisclosed
  \/ CallBuilderSetUndisclosed
  \/ CallGenerateIssuerProof
  \/ CallToPublic
  \/ CallSetClaim
  \/ CallClaimsRoundTrip
  \/ CallEncodePair
  \/ CallHeaderOctets
  \/ CallPayloadIndexes
  \/ CallAlgorithmToken
  \/ CallIssuedBuilderBuild
  \/ CallPresentedBuilderBuild

UnitSpec == UnitInit /\ [][UnitNext]_vars

====
